---- MODULE Spec2Model ----
(***************************************************************************)
(* RepoMap: the file walker with its layered ignore rules, the content     *)
(* file index and its diff, the module boundary resolver and the update    *)
(* command of the CLI, as state machines and operators over strings.       *)
(*                                                                         *)
(* A string is a sequence of UTF-16 code units (all ASCII here), so that   *)
(* JavaScript's `<` on strings, startsWith, dirname and the glob regular   *)
(* expressions are computed on the characters, as the code computes them.  *)
(***************************************************************************)
EXTENDS Integers, Sequences, FiniteSets, TLC

VARIABLES
    \* ---- walkFiles (packages/core/src/entry-detector.ts) ----
    fs,             \* the directory tree: real path -> node
    walkOpts,       \* WalkOptions of the invocation
    stack,          \* the explicit stack of WalkFrame
    yielded,        \* the paths yielded so far, in order
    seenRealPaths,  \* follow-all: real paths of the directories entered
    realRoot,       \* follow-all: real path of the root, or NoPath
    entered,        \* history: <<walk path, real path>> of each directory read
    ioErrors,       \* history: the I/O failures, each with whether onError got it
    \* ---- diffFileIndex (packages/core/src/file-index.ts) ----
    previous,       \* FileIndex handed to diffFileIndex
    current,        \* FileIndex handed to diffFileIndex
    changes,        \* the FileChangeSet returned, with a done flag
    \* ---- detectModules ----
    modFiles,       \* options.files
    modConfig,      \* what getWorkspaceConfig reads, and the caller's patterns
    modules,        \* the ModuleInfo[] returned, with a done flag
    \* ---- repomap build / update (packages/cli/src/index.ts) ----
    tree,           \* the repository: path -> content version
    disk,           \* the output directory: file_index.json, module_index.json
    run,            \* what the last invocation computed (kind "none" before the first)
    edits,          \* edits made to the tree since the last invocation, completed or not
    \* ---- buildFileIndex, worker by worker (packages/core/src/file-index.ts) ----
    repo,           \* the files under repoRoot: path -> "ok", "unreadable" or "gone"
    indexOpts,      \* BuildFileIndexOptions: files and concurrency
    nextIndex,      \* `index`, the next position of files to take
    indexEntries,   \* `entries`, in the order the workers pushed them
    workers,        \* each worker's position in its loop
    built,          \* the FileIndex returned and the catalogue, with a done flag
    firstRun,       \* what the run before this one returned, with a done flag
    faults,         \* files that disappeared or became unreadable during the run
    claimed,        \* history: the values of `current` below files.length, and who read them
    \* ---- normalizePosixPath ----
    rawPath,        \* the string handed to normalizePosixPath
    canonical,      \* what the copies of it return, with the flags done and again
    \* ---- resolveModuleRoot, turn by turn of its loop ----
    rootSet,        \* candidateRoots (moduleRoots in the CLI's copy), fixed
    rootCache,      \* the Map handed to every call: directory -> module root
    resolution,     \* the call under way or returned: filePath, dir, visited, root
    resolutions     \* history: the calls made so far

walkVars == <<fs, walkOpts, stack, yielded, seenRealPaths, realRoot, entered, ioErrors>>
diffVars == <<previous, current, changes>>
modVars  == <<modFiles, modConfig, modules>>
cliVars  == <<tree, disk, run, edits>>
idxVars  == <<repo, indexOpts, nextIndex, indexEntries, workers, built, firstRun, faults,
              claimed>>
normVars == <<rawPath, canonical>>
resVars  == <<rootSet, rootCache, resolution, resolutions>>
vars     == <<walkVars, diffVars, modVars, cliVars, idxVars, normVars, resVars>>

\* null where a path is expected (safeRealpath's failure, a broken link's target).
NoPath == <<0>>

(***************************************************************************)
(* Characters and string literals.                                         *)
(***************************************************************************)
Chr == [slash |-> 47, dot |-> 46, dash |-> 45, bang |-> 33, star |-> 42,
        qmark |-> 63, backslash |-> 92, space |-> 32]

EmptyStr == <<>>
Dot      == <<46>>                                            \* "."
Slash    == <<47>>                                            \* "/"
NodeModulesName == <<110, 111, 100, 101, 95, 109, 111, 100, 117, 108, 101, 115>>
PkgName   == <<112, 107, 103>>                                \* "pkg"
OtherName == <<111, 116, 104, 101, 114>>                      \* "other"
PackageJson == <<112, 97, 99, 107, 97, 103, 101, 46, 106, 115, 111, 110>>
GoMod     == <<103, 111, 46, 109, 111, 100>>                  \* "go.mod"
GitignoreName == <<46, 103, 105, 116, 105, 103, 110, 111, 114, 101>>

Min(S) == CHOOSE x \in S : \A y \in S : x <= y
Max(S) == CHOOSE x \in S : \A y \in S : x >= y

\* JavaScript's left < right on strings: by code unit, a proper prefix first.
RECURSIVE StrLessFrom(_, _, _)
StrLessFrom(left, right, i) ==
    IF i > Len(left) THEN i <= Len(right)
    ELSE IF i > Len(right) THEN FALSE
    ELSE IF left[i] # right[i] THEN left[i] < right[i]
    ELSE StrLessFrom(left, right, i + 1)

StrLess(left, right) == StrLessFrom(left, right, 1)

\* compareNames(left, right) < 0
compareNames(left, right) ==
    IF left = right THEN 0 ELSE IF StrLess(left, right) THEN -1 ELSE 1

\* The elements of a set as an array, in some order.
RECURSIVE SetToSeq(_)
SetToSeq(S) ==
    IF S = {} THEN <<>>
    ELSE LET x == CHOOSE y \in S : TRUE
         IN  <<x>> \o SetToSeq(S \ {x})

\* Array.prototype.sort(compareNames) of an array of pairwise distinct strings.
SortNames(S) == SortSeq(SetToSeq(S), LAMBDA l, r : compareNames(l, r) < 0)

StartsWith(s, prefix) ==
    Len(prefix) <= Len(s) /\ SubSeq(s, 1, Len(prefix)) = prefix

EndsWith(s, suffix) ==
    Len(suffix) <= Len(s) /\ SubSeq(s, Len(s) - Len(suffix) + 1, Len(s)) = suffix

Includes(s, c) == \E i \in 1..Len(s) : s[i] = c

Range(s) == {s[i] : i \in 1..Len(s)}

\* value.split("/"): the pieces between the slashes, empty pieces kept.
RECURSIVE SplitSlash(_)
SplitSlash(s) ==
    LET cuts == {i \in 1..Len(s) : s[i] = Chr.slash}
    IN  IF cuts = {} THEN <<s>>
        ELSE <<SubSeq(s, 1, Min(cuts) - 1)>>
                \o SplitSlash(SubSeq(s, Min(cuts) + 1, Len(s)))

\* segments.join("/")
RECURSIVE JoinSlash(_)
JoinSlash(segs) ==
    IF Len(segs) = 0 THEN EmptyStr
    ELSE IF Len(segs) = 1 THEN segs[1]
    ELSE segs[1] \o Slash \o JoinSlash(Tail(segs))

\* path.posix.dirname (node:path).
PosixDirname(p) ==
    IF Len(p) = 0 THEN Dot
    ELSE LET hasRoot == p[1] = Chr.slash
             nonSlash == {k \in 1..Len(p) : p[k] # Chr.slash}
             ends == IF nonSlash = {} THEN {}
                     ELSE {i \in 2..Len(p) :
                             p[i] = Chr.slash /\ i < Max(nonSlash)}
         IN  IF ends = {} THEN (IF hasRoot THEN Slash ELSE Dot)
             ELSE IF hasRoot /\ Max(ends) = 2 THEN <<47, 47>>
             ELSE SubSeq(p, 1, Max(ends) - 1)

\* path.posix.basename (node:path), without a suffix argument.
PosixBasename(p) ==
    LET nonSlash == {k \in 1..Len(p) : p[k] # Chr.slash}
    IN  IF nonSlash = {} THEN EmptyStr
        ELSE LET last == Max(nonSlash)
                 seps == {i \in 1..last : p[i] = Chr.slash}
                 first == IF seps = {} THEN 1 ELSE Max(seps) + 1
             IN  SubSeq(p, first, last)

\* path.join(dirRel, name) followed by path.relative(root, .) and toPosixPath,
\* for a directory given relative to the root ("" is the root itself).
JoinRel(dirRel, name) ==
    IF Len(dirRel) = 0 THEN name ELSE dirRel \o Slash \o name

(***************************************************************************)
(* The `ignore` package, as loadGitignore and createMatcher use it.  A      *)
(* compiled rule is one pattern line:                                      *)
(*   kind "dir"    `name/`     a directory called name, at any depth       *)
(*   kind "name"   `name`      a file or directory called name, any depth  *)
(*   kind "inside" `a/b/**`    everything inside a/b, a/b itself excluded  *)
(* with neg for a leading `!`.  test(path) checks the parent directories   *)
(* of the path first (a path under an ignored directory gets that          *)
(* directory's verdict) and, within one path, lets the last matching rule  *)
(* decide.                                                                 *)
(***************************************************************************)
Rule(neg, kind, segs) == [neg |-> neg, kind |-> kind, segs |-> segs]

\* DEFAULT_IGNORES
DEFAULT_IGNORES == <<
    Rule(FALSE, "dir", << <<46, 103, 105, 116>> >>),                  \* .git/
    Rule(FALSE, "dir", << <<46, 104, 103>> >>),                       \* .hg/
    Rule(FALSE, "dir", << <<46, 115, 118, 110>> >>),                  \* .svn/
    Rule(FALSE, "dir", << <<46, 114, 101, 112, 111, 109, 97, 112>> >>), \* .repomap/
    Rule(FALSE, "dir", << NodeModulesName >>),                        \* node_modules/
    Rule(FALSE, "dir", << <<100, 105, 115, 116>> >>),                 \* dist/
    Rule(FALSE, "dir", << <<98, 117, 105, 108, 100>> >>),             \* build/
    Rule(FALSE, "dir", << <<111, 117, 116>> >>),                      \* out/
    Rule(FALSE, "dir", << <<46, 110, 101, 120, 116>> >>),             \* .next/
    Rule(FALSE, "dir", << <<46, 110, 117, 120, 116>> >>),             \* .nuxt/
    Rule(FALSE, "dir", << <<46, 99, 97, 99, 104, 101>> >>),           \* .cache/
    Rule(FALSE, "dir", << <<46, 116, 117, 114, 98, 111>> >>),         \* .turbo/
    Rule(FALSE, "dir", << <<46, 121, 97, 114, 110>> >>),              \* .yarn/
    Rule(FALSE, "dir", << <<46, 112, 110, 112, 109>> >>),             \* .pnpm/
    Rule(FALSE, "dir", << <<99, 111, 118, 101, 114, 97, 103, 101>> >>) \* coverage/
>>

\* rule.regex.test(path), the path given as its segments and whether it ends in "/".
RuleMatches(rule, segs, isDir) ==
    CASE rule.kind = "dir"  -> isDir /\ Len(segs) > 0 /\ segs[Len(segs)] = rule.segs[1]
      [] rule.kind = "name" -> Len(segs) > 0 /\ segs[Len(segs)] = rule.segs[1]
      [] rule.kind = "inside" ->
            /\ Len(segs) > Len(rule.segs)
            /\ SubSeq(segs, 1, Len(rule.segs)) = rule.segs

\* Ignore._testOne: the last matching rule sets {ignored, unignored}.
TestOne(rules, segs, isDir) ==
    LET hits == {i \in 1..Len(rules) : RuleMatches(rules[i], segs, isDir)}
    IN  IF hits = {} THEN [ignored |-> FALSE, unignored |-> FALSE]
        ELSE [ignored |-> ~rules[Max(hits)].neg, unignored |-> rules[Max(hits)].neg]

\* Ignore._t: the first k segments of the path, parents first.
RECURSIVE IgnoreT(_, _, _, _)
IgnoreT(rules, segs, k, isDir) ==
    LET here == TestOne(rules, SubSeq(segs, 1, k), IF k < Len(segs) THEN TRUE ELSE isDir)
    IN  IF k <= 1 THEN here
        ELSE LET parent == IgnoreT(rules, segs, k - 1, isDir)
             IN  IF parent.ignored THEN parent ELSE here

\* matcher.test(toMatchPath(relToBase, isDir))
IgnoreTest(rules, relToBase, isDir) ==
    IF Len(relToBase) = 0 THEN [ignored |-> FALSE, unignored |-> FALSE]
    ELSE IgnoreT(rules, SplitSlash(relToBase), Len(SplitSlash(relToBase)), isDir)

\* An IgnoreMatcher {baseRel, matcher}: the compiled matcher is named by where
\* its patterns come from ("default": options.defaultIgnores, "override":
\* options.ignoreGlobs, "gitignore": the .gitignore of directory baseRel), and
\* MatcherRules gives its rules.  NoMatcher is null.
NoMatcher == [baseRel |-> NoPath, source |-> "none", rulesAt |-> NoPath]

\* createMatcher(patterns, baseRel): null for an empty pattern list.
createMatcher(patterns, source, baseRel) ==
    IF Len(patterns) = 0 THEN NoMatcher
    ELSE [baseRel |-> baseRel, source |-> source, rulesAt |-> NoPath]

\* relativeToBase(relPosix, baseRel): NoPath for null.
relativeToBase(relPosix, baseRel) ==
    IF Len(baseRel) = 0 THEN relPosix
    ELSE IF relPosix = baseRel THEN EmptyStr
    ELSE IF ~StartsWith(relPosix, baseRel \o Slash) THEN NoPath
    ELSE SubSeq(relPosix, Len(baseRel) + 2, Len(relPosix))

\* The rules of every .gitignore of the tree in one list, as one matcher shared
\* by all directories would hold them: what GitignoreRules must not be.
GitignoreRulesShared(tr, path) ==
    LET files == SortNames({q \in DOMAIN tr : tr[q].kind = "file" /\ Len(tr[q].rules) > 0})
        Join[k \in 0..Len(files)] ==
            IF k = 0 THEN <<>> ELSE Join[k - 1] \o tr[files[k]].rules
    IN  IF path \in DOMAIN tr /\ tr[path].kind = "file" THEN Join[Len(files)] ELSE <<>>

\* The rules of a gitignore file: those of the node at its real path.
GitignoreRules(tr, path) ==
    IF path \in DOMAIN tr /\ tr[path].kind = "file" THEN tr[path].rules ELSE <<>>

MatcherRules(m) ==
    CASE m.source = "default"   -> DEFAULT_IGNORES
      [] m.source = "override"  -> walkOpts.ignoreGlobs
      [] m.source = "gitignore" -> GitignoreRules(fs, m.rulesAt)
      [] OTHER -> <<>>

\* One matcher's effect on the accumulated verdict of isIgnored.
ApplyMatcher(ignored, m, relPosix, isDir) ==
    LET relToBase == relativeToBase(relPosix, m.baseRel)
        result == IgnoreTest(MatcherRules(m), relToBase, isDir)
    IN  IF relToBase = NoPath THEN ignored
        ELSE IF result.unignored THEN FALSE
        ELSE IF result.ignored THEN TRUE
        ELSE ignored

RECURSIVE ApplyStack(_, _, _, _, _)
ApplyStack(ignored, ignoreStack, i, relPosix, isDir) ==
    IF i > Len(ignoreStack) THEN ignored
    ELSE ApplyStack(ApplyMatcher(ignored, ignoreStack[i], relPosix, isDir),
                    ignoreStack, i + 1, relPosix, isDir)

\* isIgnored with the override matcher evaluated first: what it must not be.
isIgnoredOverrideFirst(relPosix, isDir, ignoreStack, overrideMatcher) ==
    IF Len(relPosix) = 0 THEN FALSE
    ELSE ApplyStack(IF overrideMatcher = NoMatcher THEN FALSE
                    ELSE ApplyMatcher(FALSE, overrideMatcher, relPosix, isDir),
                    ignoreStack, 1, relPosix, isDir)

\* isIgnored(relPosix, isDir, stack, overrideMatcher)
isIgnored(relPosix, isDir, ignoreStack, overrideMatcher) ==
    IF Len(relPosix) = 0 THEN FALSE
    ELSE LET afterStack == ApplyStack(FALSE, ignoreStack, 1, relPosix, isDir)
         IN  IF overrideMatcher = NoMatcher THEN afterStack
             ELSE ApplyMatcher(afterStack, overrideMatcher, relPosix, isDir)

(***************************************************************************)
(* The directory tree.  fs maps a real path, relative to the real root     *)
(* ("" is the root, a path starting with ".." lies outside it), to a node: *)
(* a directory, a regular file (a .gitignore file carries its rules) or a  *)
(* symbolic link with the real path it resolves to.                        *)
(***************************************************************************)
FileNode        == [kind |-> "file", to |-> NoPath, rules |-> <<>>, denied |-> FALSE]
DirNode         == [kind |-> "dir",  to |-> NoPath, rules |-> <<>>, denied |-> FALSE]
LinkNode(to)    == [kind |-> "link", to |-> to,     rules |-> <<>>, denied |-> FALSE]
GitignoreNode(rules) == [kind |-> "file", to |-> NoPath, rules |-> rules, denied |-> FALSE]
\* A directory the process may neither read nor search.
DeniedDirNode   == [kind |-> "dir",  to |-> NoPath, rules |-> <<>>, denied |-> TRUE]

\* The directory part of a root-relative path ("" for a top-level name).
ParentRel(p) == IF Includes(p, Chr.slash) THEN PosixDirname(p) ELSE EmptyStr

\* The real path of an entry whose directory is resolved: a link gives the
\* path it resolves to.
RealOf(tr, q) ==
    IF q \notin DOMAIN tr THEN NoPath
    ELSE IF tr[q].kind = "link"
         THEN (IF tr[q].to \in DOMAIN tr THEN tr[q].to ELSE NoPath)
         ELSE q

\* fs.realpath of a walk path: NoPath when it does not resolve.
RECURSIVE Real(_, _)
Real(tr, w) ==
    IF Len(w) = 0 THEN (IF EmptyStr \in DOMAIN tr THEN EmptyStr ELSE NoPath)
    ELSE CHOOSE r \in { IF parent = NoPath THEN NoPath
                        ELSE RealOf(tr, JoinRel(parent, PosixBasename(w))) :
                        parent \in {Real(tr, ParentRel(w))} } : TRUE

\* fs.stat(path).isDirectory() / isFile(): "none" when stat fails.
StatKind(tr, w) ==
    CHOOSE k \in {IF real = NoPath THEN "none" ELSE tr[real].kind :
                    real \in {Real(tr, w)}} : TRUE

\* isPathInside without its test: what it must not be.
isPathInsideAlways(base, target) == TRUE

\* isPathInside(realRoot, target), both given relative to the real root:
\* path.relative gives "" for the root itself and starts with ".." outside it.
isPathInside(base, target) ==
    \/ base = target
    \/ /\ Len(target) > 0
       /\ ~StartsWith(target, <<46, 46>>)
       /\ target[1] # Chr.slash

\* reportError(err, targetPath, onError) after a failed operation: the failure
\* joins the history, passed telling whether onError was called with it.
\* code "none" is the operation that did not fail.
Reported(errors, op, code, targetPath, hasOnError) ==
    IF code = "none" THEN errors
    ELSE Append(errors, [op |-> op, code |-> code, path |-> targetPath,
                         passed |-> hasOnError /\ code # "ENOENT"])

\* What fs.opendir(dirPath) fails with.
OpendirCode(tr, dirRel) ==
    CHOOSE code \in { IF real = NoPath THEN "ENOENT"
                      ELSE IF tr[real].kind # "dir" THEN "ENOTDIR"
                      ELSE IF tr[real].denied THEN "EACCES"
                      ELSE "none" : real \in {Real(tr, dirRel)} } : TRUE

\* What loadGitignore reports of its fs.readFile: ENOENT returns null before
\* reportError is reached.
ReadGitignoreCode(tr, dirRel) ==
    CHOOSE code \in { IF real = NoPath THEN "none"
                      ELSE IF tr[real].kind # "dir" THEN "ENOTDIR"
                      ELSE IF tr[real].denied THEN "EACCES"
                      ELSE "none" : real \in {Real(tr, dirRel)} } : TRUE

\* What fs.realpath and fs.stat fail with: the path does not resolve.
ResolveCode(tr, w) == IF Real(tr, w) = NoPath THEN "ENOENT" ELSE "none"

\* The array sorted the other way round: the order a filesystem may enumerate in.
RECURSIVE SortNamesDescending(_)
SortNamesDescending(S) ==
    IF S = {} THEN <<>>
    ELSE LET m == CHOOSE x \in S : \A y \in S : compareNames(x, y) >= 0
         IN  <<m>> \o SortNamesDescending(S \ {m})

\* readDirEntries without its entries.sort(...).
readDirEntriesUnsorted(tr, dirRel) ==
    LET real == Real(tr, dirRel)
    IN  IF OpendirCode(tr, dirRel) # "none" THEN <<>>
        ELSE SortNamesDescending({PosixBasename(q) :
                          q \in {r \in DOMAIN tr : Len(r) > 0 /\ ParentRel(r) = real}})

\* readDirEntries(dirPath): the names in the directory, sorted by compareNames.
readDirEntries(tr, dirRel) ==
    IF OpendirCode(tr, dirRel) # "none" THEN <<>>
    ELSE SortNames(UNION { {PosixBasename(q) :
                              q \in {r \in DOMAIN tr : Len(r) > 0 /\ ParentRel(r) = real}} :
                           real \in {Real(tr, dirRel)} })

\* The Dirent's type: that of the entry itself, a link not followed.
DirentKind(tr, dirRel, name) == tr[JoinRel(Real(tr, dirRel), name)].kind

\* loadGitignore(dirPath, dirRel): NoMatcher for null (no file, an empty one).
loadGitignore(tr, dirRel) ==
    LET real == Real(tr, JoinRel(dirRel, GitignoreName))
    IN  IF \/ ReadGitignoreCode(tr, dirRel) # "none"
           \/ real = NoPath
           \/ Len(GitignoreRules(tr, real)) = 0
        THEN NoMatcher
        ELSE [baseRel |-> dirRel, source |-> "gitignore", rulesAt |-> real]

(***************************************************************************)
(* walkFiles: one action per turn of `while (stack.length > 0)`.           *)
(***************************************************************************)
EnterFrameOf(dirRel, depth, ignoreStack) ==
    [type |-> "enter", dirRel |-> dirRel, depth |-> depth,
     ignoreStack |-> ignoreStack, entries |-> <<>>, index |-> 0]

overrideMatcher == createMatcher(walkOpts.ignoreGlobs, "override", EmptyStr)

\* The walk without its depth tests.
ExceedsMaxDepthNever(depth) == FALSE

ExceedsMaxDepth(depth) == walkOpts.hasMaxDepth /\ depth > walkOpts.maxDepth

Top == stack[Len(stack)]

\* The stack read at its top without stack.pop(): what Popped must not be.
Peeked == stack

Popped == SubSeq(stack, 1, Len(stack) - 1)

\* The failures of an enter frame that is not skipped, in the order of its
\* operations: safeRealpath under follow-all, loadGitignore, readDirEntries.
EnterErrors(frame, followAll) ==
    Reported(
        Reported(
            Reported(ioErrors, "realpath",
                     IF followAll /\ ~(frame.depth = 0 /\ realRoot # NoPath)
                     THEN ResolveCode(fs, frame.dirRel) ELSE "none",
                     frame.dirRel, walkOpts.hasOnError),
            "readFile",
            IF walkOpts.useGitignore THEN ReadGitignoreCode(fs, frame.dirRel) ELSE "none",
            JoinRel(frame.dirRel, GitignoreName), walkOpts.hasOnError),
        "opendir", OpendirCode(fs, frame.dirRel), frame.dirRel, walkOpts.hasOnError)

\* frame.type === "enter"
WalkEnter ==
    /\ Len(stack) > 0
    /\ Top.type = "enter"
    /\ LET frame == Top
           followAll == walkOpts.symlinkPolicy = "follow-all"
           dirRealPath == IF frame.depth = 0 /\ realRoot # NoPath THEN realRoot
                          ELSE Real(fs, frame.dirRel)
           outside == followAll /\ dirRealPath # NoPath /\ realRoot # NoPath
                        /\ ~isPathInside(realRoot, dirRealPath)
           seen == followAll /\ dirRealPath # NoPath /\ dirRealPath \in seenRealPaths
           gitignoreMatcher == loadGitignore(fs, frame.dirRel)
           ignoreStack == IF walkOpts.useGitignore /\ gitignoreMatcher # NoMatcher
                          THEN Append(frame.ignoreStack, gitignoreMatcher)
                          ELSE frame.ignoreStack
       IN  IF ExceedsMaxDepth(frame.depth) \/ outside \/ seen
           THEN /\ stack' = Popped
                /\ UNCHANGED <<seenRealPaths, entered, ioErrors>>
           ELSE /\ ioErrors' = EnterErrors(frame, followAll)
                /\ seenRealPaths' = IF followAll /\ dirRealPath # NoPath
                                    THEN seenRealPaths \cup {dirRealPath}
                                    ELSE seenRealPaths
                /\ entered' = Append(entered, <<frame.dirRel, Real(fs, frame.dirRel)>>)
                /\ stack' = Append(Popped,
                       [type |-> "iterate", dirRel |-> frame.dirRel,
                        depth |-> frame.depth, ignoreStack |-> ignoreStack,
                        entries |-> readDirEntries(fs, frame.dirRel), index |-> 0])
    /\ UNCHANGED <<fs, walkOpts, yielded, realRoot>>
    /\ UNCHANGED <<diffVars, modVars, cliVars, idxVars, normVars, resVars>>

\* frame.index >= frame.entries.length
WalkLeave ==
    /\ Len(stack) > 0
    /\ Top.type = "iterate"
    /\ Top.index >= Len(Top.entries)
    /\ stack' = Popped
    /\ UNCHANGED <<fs, walkOpts, yielded, seenRealPaths, realRoot, entered, ioErrors>>
    /\ UNCHANGED <<diffVars, modVars, cliVars, idxVars, normVars, resVars>>

\* The entry at frame.index, and the stack once the frame is pushed back with
\* index + 1.
EntryName == Top.entries[Top.index + 1]
EntryRel  == JoinRel(Top.dirRel, EntryName)
EntryKind == DirentKind(fs, Top.dirRel, EntryName)
Advanced  == Append(Popped, [Top EXCEPT !.index = Top.index + 1])
AtEntry   == Len(stack) > 0 /\ Top.type = "iterate" /\ Top.index < Len(Top.entries)

\* What the directory branches push: nothing for an ignored directory or one
\* beyond maxDepth.
PushDir ==
    IF \/ isIgnored(EntryRel, TRUE, Top.ignoreStack, overrideMatcher)
       \/ ExceedsMaxDepth(Top.depth + 1)
    THEN Advanced
    ELSE Append(Advanced, EnterFrameOf(EntryRel, Top.depth + 1, Top.ignoreStack))

\* What the file branches yield.
YieldFile ==
    IF isIgnored(EntryRel, FALSE, Top.ignoreStack, overrideMatcher)
    THEN yielded
    ELSE Append(yielded, EntryRel)

\* entry.isDirectory()
WalkDir ==
    /\ AtEntry
    /\ EntryKind = "dir"
    /\ stack' = PushDir
    /\ UNCHANGED <<fs, walkOpts, yielded, seenRealPaths, realRoot, entered, ioErrors>>
    /\ UNCHANGED <<diffVars, modVars, cliVars, idxVars, normVars, resVars>>

\* entry.isFile()
WalkFile ==
    /\ AtEntry
    /\ EntryKind = "file"
    /\ stack' = Advanced
    /\ yielded' = YieldFile
    /\ UNCHANGED <<fs, walkOpts, seenRealPaths, realRoot, entered, ioErrors>>
    /\ UNCHANGED <<diffVars, modVars, cliVars, idxVars, normVars, resVars>>

\* if (symlinkPolicy === "skip") continue, without the test.
SymlinkSkippedNever(symlinkPolicy) == FALSE

\* if (symlinkPolicy === "skip") continue
SymlinkSkipped(symlinkPolicy) == symlinkPolicy = "skip"

\* entry.isSymbolicLink()
WalkSymlink ==
    /\ AtEntry
    /\ EntryKind = "link"
    /\ ioErrors' = IF SymlinkSkipped(walkOpts.symlinkPolicy) THEN ioErrors
                   ELSE Reported(ioErrors, "stat", ResolveCode(fs, EntryRel),
                                 EntryRel, walkOpts.hasOnError)
    /\ LET stats == StatKind(fs, EntryRel)
       IN  IF SymlinkSkipped(walkOpts.symlinkPolicy) \/ stats = "none"
           THEN /\ stack' = Advanced
                /\ yielded' = yielded
           ELSE IF stats = "dir"
           THEN /\ stack' = IF walkOpts.symlinkPolicy # "follow-all"
                            THEN Advanced ELSE PushDir
                /\ yielded' = yielded
           ELSE /\ stack' = Advanced
                /\ yielded' = YieldFile
    /\ UNCHANGED <<fs, walkOpts, seenRealPaths, realRoot, entered>>
    /\ UNCHANGED <<diffVars, modVars, cliVars, idxVars, normVars, resVars>>

WalkDone == Len(stack) = 0

(***************************************************************************)
(* The trees and options a walk is started with.                           *)
(***************************************************************************)
MaxDepthOpt == 1

NameA  == <<97>>                \* "a"
NameAB == <<97, 46, 98>>        \* "a.b"
NameB  == <<98>>                \* "b"
NameX  == <<120>>               \* "x"
NameY  == <<121>>               \* "y"
NameL  == <<108>>               \* "l"
NameF  == <<102>>               \* "f"
OutsideDir == <<46, 46, 47, 111>>   \* "../o"

Only(p, node) == p :> node
NoNodes == [p \in {} |-> DirNode]

\* "a": absent, a file, or a directory holding a file x and/or a link l.
TreesA ==
    {NoNodes, Only(NameA, FileNode)} \cup
    { Only(NameA, DirNode) @@ xs @@ ls :
        xs \in {NoNodes, Only(JoinRel(NameA, NameX), FileNode)},
        ls \in {NoNodes} \cup
               { Only(JoinRel(NameA, NameL), LinkNode(to)) :
                   to \in {EmptyStr, OutsideDir, NameAB, NameB} } }

TreesAB == {NoNodes, Only(NameAB, FileNode)}

\* "b": absent, or a directory holding a file y, readable or not.
TreesB ==
    {NoNodes,
     Only(NameB, DirNode) @@ Only(JoinRel(NameB, NameY), FileNode),
     Only(NameB, DeniedDirNode) @@ Only(JoinRel(NameB, NameY), FileNode)}

TreesNodeModules ==
    {NoNodes,
     Only(NodeModulesName, DirNode)
       @@ Only(JoinRel(NodeModulesName, PkgName), DirNode)
       @@ Only(JoinRel(JoinRel(NodeModulesName, PkgName), NameF), FileNode)
       @@ Only(JoinRel(NodeModulesName, OtherName), DirNode)
       @@ Only(JoinRel(JoinRel(NodeModulesName, OtherName), NameF), FileNode)}

\* A root .gitignore holding the line `x`.
TreesGitignore ==
    {NoNodes, Only(GitignoreName, GitignoreNode(<<Rule(FALSE, "name", <<NameX>>)>>))}

OutsideNodes == Only(OutsideDir, DirNode) @@ Only(JoinRel(OutsideDir, NameF), FileNode)

\* The root is a directory, or it does not exist, or it is a regular file.
Trees ==
    { Only(EmptyStr, DirNode) @@ OutsideNodes @@ ta @@ tab @@ tb @@ tn @@ tg :
        ta \in TreesA, tab \in TreesAB, tb \in TreesB,
        tn \in TreesNodeModules, tg \in TreesGitignore }
    \cup {OutsideNodes, Only(EmptyStr, FileNode) @@ OutsideNodes}

\* --ignore '!node_modules/pkg/**'
OverridePkg == <<Rule(TRUE, "inside", <<NodeModulesName, PkgName>>)>>

IgnoreGlobsChoices == {<<>>, OverridePkg}

WalkOptionsChoices ==
    [symlinkPolicy : {"skip", "follow-file", "follow-all"},
     hasMaxDepth   : BOOLEAN,
     maxDepth      : 0..MaxDepthOpt,
     ignoreGlobs   : IgnoreGlobsChoices,
     useGitignore  : BOOLEAN,
     hasOnError    : BOOLEAN]

\* The directory b is removed after its parent was read and before the walk
\* opens it.
DirectoryVanishes ==
    /\ Len(stack) > 0
    /\ Top.type = "enter"
    /\ Top.dirRel = NameB
    /\ NameB \in DOMAIN fs
    /\ fs' = [q \in {r \in DOMAIN fs : r # NameB /\ ~StartsWith(r, NameB \o Slash)} |-> fs[q]]
    /\ UNCHANGED <<walkOpts, stack, yielded, seenRealPaths, realRoot, entered, ioErrors>>
    /\ UNCHANGED <<diffVars, modVars, cliVars, idxVars, normVars, resVars>>

\* Variables of the other components, at rest.
DiffIdle == previous = <<>> /\ current = <<>> /\ changes = <<>>
ModIdle  == modFiles = <<>> /\ modConfig = <<>> /\ modules = <<>>
CliIdle  == tree = <<>> /\ disk = <<>> /\ run = <<>> /\ edits = 0
IdxIdle  ==
    /\ repo = <<>> /\ indexOpts = <<>> /\ nextIndex = 0 /\ indexEntries = <<>>
    /\ workers = <<>> /\ built = <<>> /\ firstRun = <<>> /\ faults = 0
    /\ claimed = <<>>
NormIdle == rawPath = <<>> /\ canonical = <<>>
ResIdle  == rootSet = {} /\ rootCache = <<>> /\ resolution = <<>> /\ resolutions = 0

\* walkFiles up to its loop: the root frame with the default ignores.
InitWalk ==
    /\ fs \in Trees
    /\ walkOpts \in {o \in WalkOptionsChoices : o.hasMaxDepth \/ o.maxDepth = 0}
    /\ yielded = <<>>
    /\ seenRealPaths = {}
    /\ entered = <<>>
    /\ ioErrors = IF walkOpts.symlinkPolicy = "follow-all"
                  THEN Reported(<<>>, "realpath", ResolveCode(fs, EmptyStr),
                                EmptyStr, walkOpts.hasOnError)
                  ELSE <<>>
    /\ realRoot = IF walkOpts.symlinkPolicy = "follow-all"
                  THEN Real(fs, EmptyStr) ELSE NoPath
    /\ stack = <<EnterFrameOf(EmptyStr, 0, <<createMatcher(DEFAULT_IGNORES, "default", EmptyStr)>>)>>
    /\ DiffIdle /\ ModIdle /\ CliIdle /\ IdxIdle /\ NormIdle /\ ResIdle

NextWalk ==
    WalkEnter \/ WalkLeave \/ WalkDir \/ WalkFile \/ WalkSymlink \/ DirectoryVanishes

SpecWalk == InitWalk /\ [][NextWalk]_vars

\* The loop of walkFiles keeps running while the consumer keeps asking: a turn
\* of `while (stack.length > 0)` that can be taken is taken.
WalkTurn == WalkEnter \/ WalkLeave \/ WalkDir \/ WalkFile \/ WalkSymlink

\* The trees with links (to a file, to a directory, back to the root, out of
\* the root, to nothing), with a directory that cannot be read or vanishes,
\* and without a root; no ignore rules beyond the default ones and no
\* maxDepth, which only cuts a walk short.
InitWalkFair ==
    /\ InitWalk
    /\ ~walkOpts.hasMaxDepth
    /\ NodeModulesName \notin DOMAIN fs
    /\ GitignoreName \notin DOMAIN fs
    /\ walkOpts.ignoreGlobs = <<>>
    /\ walkOpts.useGitignore
    /\ walkOpts.hasOnError

SpecWalkFair == InitWalkFair /\ [][NextWalk]_vars /\ WF_vars(WalkTurn)

(***************************************************************************)
(* The walk over trees with .gitignore files at the root and in the        *)
(* directory a, and with override patterns: no links, no depth bound.      *)
(***************************************************************************)
PathAA == JoinRel(NameA, NameA)                                   \* "a/a"

IgnoreX    == <<Rule(FALSE, "name", <<NameX>>)>>                   \* x
UnignoreX  == <<Rule(TRUE, "name", <<NameX>>)>>                    \* !x
IgnoreA    == <<Rule(FALSE, "name", <<NameA>>)>>                   \* a
IgnoreY    == <<Rule(FALSE, "name", <<NameY>>)>>                   \* y

GitignoreIn(dirRel, rules) ==
    IF Len(rules) = 0 THEN NoNodes
    ELSE Only(JoinRel(dirRel, GitignoreName), GitignoreNode(rules))

\* x, a/a, a/x, a/y, b/x and b/y, with a .gitignore or none at the root and in a.
IgnoreTrees ==
    { Only(EmptyStr, DirNode) @@ Only(NameX, FileNode)
        @@ Only(NameA, DirNode) @@ Only(PathAA, FileNode)
        @@ Only(JoinRel(NameA, NameX), FileNode) @@ Only(JoinRel(NameA, NameY), FileNode)
        @@ Only(NameB, DirNode) @@ Only(JoinRel(NameB, NameX), FileNode)
        @@ Only(JoinRel(NameB, NameY), FileNode)
        @@ GitignoreIn(EmptyStr, atRoot) @@ GitignoreIn(NameA, inA) :
        atRoot \in {<<>>, IgnoreX, UnignoreX},
        inA \in {<<>>, IgnoreX, UnignoreX, IgnoreA, IgnoreY} }

IgnoreOptionsChoices ==
    [symlinkPolicy : {"skip"},
     hasMaxDepth   : {FALSE},
     maxDepth      : {0},
     ignoreGlobs   : {<<>>, IgnoreX, UnignoreX},
     useGitignore  : BOOLEAN,
     hasOnError    : {FALSE}]

InitWalkIgnore ==
    /\ fs \in IgnoreTrees
    /\ walkOpts \in IgnoreOptionsChoices
    /\ yielded = <<>>
    /\ seenRealPaths = {}
    /\ entered = <<>>
    /\ ioErrors = <<>>
    /\ realRoot = NoPath
    /\ stack = <<EnterFrameOf(EmptyStr, 0, <<createMatcher(DEFAULT_IGNORES, "default", EmptyStr)>>)>>
    /\ DiffIdle /\ ModIdle /\ CliIdle /\ IdxIdle /\ NormIdle /\ ResIdle

NextWalkIgnore == WalkEnter \/ WalkLeave \/ WalkDir \/ WalkFile

SpecWalkIgnore == InitWalkIgnore /\ [][NextWalkIgnore]_vars

(***************************************************************************)
(* The content file index (packages/core/src/file-index.ts).               *)
(* A FileIndexEntry is [path, size, mtimeMs, hash]; hash is NoHash for     *)
(* null.  A FileIndex is [hashAlgorithm, files], files sorted by path.     *)
(***************************************************************************)
NoHash == "null"

Entry(path, size, mtimeMs, hash) ==
    [path |-> path, size |-> size, mtimeMs |-> mtimeMs, hash |-> hash]

\* Array.prototype.sort(compareNames) of an array of strings.
SortPaths(paths) == SortSeq(paths, LAMBDA l, r : compareNames(l, r) < 0)

\* entryChanged without the useHash guard: the hashes are compared whenever
\* both are there.
entryChangedIgnoringAlgorithm(prev, next, useHash) ==
    IF prev.hash # NoHash /\ next.hash # NoHash
    THEN prev.hash # next.hash
    ELSE prev.size # next.size \/ prev.mtimeMs # next.mtimeMs

\* entryChanged(prev, next, useHash)
entryChanged(prev, next, useHash) ==
    IF useHash /\ prev.hash # NoHash /\ next.hash # NoHash
    THEN prev.hash # next.hash
    ELSE prev.size # next.size \/ prev.mtimeMs # next.mtimeMs

\* new Map(index.files.map((entry) => [entry.path, entry])): the last entry
\* of a path is the one kept.
EntryMap(index) ==
    [p \in {index.files[i].path : i \in 1..Len(index.files)} |->
        index.files[Max({i \in 1..Len(index.files) : index.files[i].path = p})]]

PathsOf(entries) == [i \in 1..Len(entries) |-> entries[i].path]

\* The first loop taking the paths that prevMap has, not those it lacks.
DiffAddedInverted(prev, cur) ==
    PathsOf(SelectSeq(cur.files, LAMBDA e : e.path \in DOMAIN EntryMap(prev)))

\* The first loop of diffFileIndex: the paths pushed to `added`.
DiffAdded(prev, cur) ==
    PathsOf(SelectSeq(cur.files, LAMBDA e : e.path \notin DOMAIN EntryMap(prev)))

\* The first loop of diffFileIndex: the paths pushed to `modified`.
DiffModified(prev, cur) ==
    LET useHash == prev.hashAlgorithm = cur.hashAlgorithm
    IN  PathsOf(SelectSeq(cur.files,
            LAMBDA e : /\ e.path \in DOMAIN EntryMap(prev)
                       /\ entryChanged(EntryMap(prev)[e.path], e, useHash)))

\* The second loop of diffFileIndex: the paths pushed to `deleted`.
DiffDeleted(prev, cur) ==
    PathsOf(SelectSeq(prev.files, LAMBDA e : e.path \notin DOMAIN EntryMap(cur)))

\* diffFileIndex(previous, current)
diffFileIndex(prev, cur) ==
    [hashAlgorithm |-> cur.hashAlgorithm,
     added    |-> SortPaths(DiffAdded(prev, cur)),
     modified |-> SortPaths(DiffModified(prev, cur)),
     deleted  |-> SortPaths(DiffDeleted(prev, cur))]

MaxIndexFiles == 2

DiffPaths == {NameA, NameAB, JoinRel(NameA, NameX)}

\* What stat and the hash can say of one file: two contents, a touched file,
\* a resized one, an unreadable one.
EntryVariants ==
    { <<1, 1, "h1">>, <<1, 1, "h2">>, <<2, 1, "h1">>, <<1, 2, "h1">>, <<1, 1, NoHash>> }

\* The indexes buildFileIndex can return over DiffPaths: at most MaxIndexFiles
\* entries, sorted by path.
FileIndexes ==
    { [hashAlgorithm |-> alg,
       files |-> [i \in 1..Cardinality(ps) |->
                    Entry(SortNames(ps)[i], v[SortNames(ps)[i]][1],
                          v[SortNames(ps)[i]][2], v[SortNames(ps)[i]][3])]] :
        alg \in {"sha256", "sha1"},
        ps \in {q \in SUBSET DiffPaths : Cardinality(q) <= MaxIndexFiles},
        v \in [DiffPaths -> EntryVariants] }

NoChanges ==
    [done |-> FALSE, hashAlgorithm |-> "none",
     added |-> <<>>, modified |-> <<>>, deleted |-> <<>>]

WalkIdle ==
    /\ fs = <<>> /\ walkOpts = <<>> /\ stack = <<>> /\ yielded = <<>>
    /\ seenRealPaths = {} /\ realRoot = NoPath /\ entered = <<>> /\ ioErrors = <<>>

InitDiff ==
    /\ previous \in FileIndexes
    /\ current \in FileIndexes
    /\ changes = NoChanges
    /\ WalkIdle /\ ModIdle /\ CliIdle /\ IdxIdle /\ NormIdle /\ ResIdle

\* const changes = diffFileIndex(previousIndex, currentIndex)
Diff ==
    /\ ~changes.done
    /\ changes' = [done |-> TRUE] @@ diffFileIndex(previous, current)
    /\ UNCHANGED <<previous, current>>
    /\ UNCHANGED <<walkVars, modVars, cliVars, idxVars, normVars, resVars>>

NextDiff == Diff

SpecDiff == InitDiff /\ [][NextDiff]_vars

(***************************************************************************)
(* detectModules: path and glob normalisation.                             *)
(***************************************************************************)
\* The characters String.prototype.trim removes (the ASCII ones).
Whitespace == {9, 10, 11, 12, 13, 32}

\* value.replace(/\\/g, "/")
ReplaceBackslashes(value) ==
    [i \in 1..Len(value) |-> IF value[i] = Chr.backslash THEN Chr.slash ELSE value[i]]

\* value.trim()
Trim(value) ==
    LET keep == {i \in 1..Len(value) : value[i] \notin Whitespace}
    IN  IF keep = {} THEN EmptyStr ELSE SubSeq(value, Min(keep), Max(keep))

\* while (normalized.endsWith("/") && normalized.length > 1) slice(0, -1)
RECURSIVE StripTrailingSlashes(_)
StripTrailingSlashes(value) ==
    IF Len(value) > 1 /\ value[Len(value)] = Chr.slash
    THEN StripTrailingSlashes(SubSeq(value, 1, Len(value) - 1))
    ELSE value

\* normalizePosixPath of the module detector: the empty string stays empty.
detectorNormalizePosixPath(value) ==
    LET trimmed == Trim(ReplaceBackslashes(value))
        sliced  == IF StartsWith(trimmed, <<46, 47>>)
                   THEN SubSeq(trimmed, 3, Len(trimmed)) ELSE trimmed
    IN  StripTrailingSlashes(sliced)

\* normalizePosixPath of the file index and of the CLI: the empty string is ".".
normalizePosixPath(value) ==
    LET normalized == detectorNormalizePosixPath(value)
    IN  IF Len(normalized) = 0 THEN Dot ELSE normalized

normalizeDirPath(value) ==
    LET normalized == detectorNormalizePosixPath(value)
    IN  IF Len(normalized) = 0 \/ normalized = Dot THEN Dot ELSE normalized

normalizeGlobPattern(value) ==
    LET pattern == Trim(value)
    IN  IF Len(pattern) = 0 THEN EmptyStr
        ELSE LET negated == pattern[1] = Chr.bang
                 body    == IF negated THEN Tail(pattern) ELSE pattern
                 norm    == detectorNormalizePosixPath(body)
                 final   == IF norm = Dot THEN EmptyStr ELSE norm
             IN  IF negated THEN <<Chr.bang>> \o final ELSE final

\* Array.from(new Set(list)): the first occurrence of each value, in order.
RECURSIVE Unique(_)
Unique(list) ==
    IF Len(list) = 0 THEN <<>>
    ELSE LET init == Unique(SubSeq(list, 1, Len(list) - 1))
             last == list[Len(list)]
         IN  IF last \in Range(init) THEN init ELSE Append(init, last)

normalizeGlobList(patterns) ==
    Unique(SelectSeq([i \in 1..Len(patterns) |-> normalizeGlobPattern(patterns[i])],
                     LAMBDA pattern : Len(pattern) > 0))

normalizeRootList(roots) ==
    Unique(SelectSeq([i \in 1..Len(roots) |-> normalizeDirPath(roots[i])],
                     LAMBDA root : Len(root) > 0))

\* The regular expression globToRegExp builds, as its list of atoms: a code
\* unit for an escaped literal, and
AnyChars     == -1      \* .*
SegmentChars == -2      \* [^/]*
SegmentChar  == -3      \* [^/]

RECURSIVE globToRegExp(_)
globToRegExp(pattern) ==
    IF Len(pattern) = 0 THEN <<>>
    ELSE IF pattern[1] = Chr.star
    THEN IF Len(pattern) > 1 /\ pattern[2] = Chr.star
         THEN LET others == {i \in 1..Len(pattern) : pattern[i] # Chr.star}
                  rest   == IF others = {} THEN <<>>
                            ELSE SubSeq(pattern, Min(others), Len(pattern))
              IN  <<AnyChars>> \o globToRegExp(rest)
         ELSE <<SegmentChars>> \o globToRegExp(Tail(pattern))
    ELSE IF pattern[1] = Chr.qmark
    THEN <<SegmentChar>> \o globToRegExp(Tail(pattern))
    ELSE <<pattern[1]>> \o globToRegExp(Tail(pattern))

\* regex.test(value) for an anchored expression of those atoms.
RECURSIVE RegExpTest(_, _)
RegExpTest(regex, value) ==
    IF Len(regex) = 0 THEN Len(value) = 0
    ELSE LET atom == regex[1]
             rest == Tail(regex)
             Suffix(k) == SubSeq(value, k + 1, Len(value))
         IN  CASE atom = AnyChars ->
                    \E k \in 0..Len(value) : RegExpTest(rest, Suffix(k))
               [] atom = SegmentChars ->
                    \E k \in 0..Len(value) :
                        /\ \A i \in 1..k : value[i] # Chr.slash
                        /\ RegExpTest(rest, Suffix(k))
               [] atom = SegmentChar ->
                    /\ Len(value) > 0
                    /\ value[1] # Chr.slash
                    /\ RegExpTest(rest, Tail(value))
               [] OTHER ->
                    /\ Len(value) > 0
                    /\ value[1] = atom
                    /\ RegExpTest(rest, Tail(value))

compileGlobMatchers(patterns) ==
    [i \in 1..Len(patterns) |->
        LET negated == StartsWith(patterns[i], <<Chr.bang>>)
        IN  [negated |-> negated,
             regex |-> globToRegExp(IF negated THEN Tail(patterns[i]) ELSE patterns[i])]]

\* matchesPatterns: the last matcher whose expression matches decides.
matchesPatterns(value, matchers) ==
    LET hits == {i \in 1..Len(matchers) : RegExpTest(matchers[i].regex, value)}
    IN  IF hits = {} THEN FALSE ELSE ~matchers[Max(hits)].negated

(***************************************************************************)
(* detectModules: candidate roots and the assignment of files.             *)
(***************************************************************************)
PackagesName == <<112, 97, 99, 107, 97, 103, 101, 115>>             \* "packages"

\* DEFAULT_WORKSPACE_PATTERNS: packages/*, apps/*, services/*, libs/*
DEFAULT_WORKSPACE_PATTERNS == <<
    PackagesName \o <<47, 42>>,
    <<97, 112, 112, 115, 47, 42>>,
    <<115, 101, 114, 118, 105, 99, 101, 115, 47, 42>>,
    <<108, 105, 98, 115, 47, 42>> >>

PYPROJECT_FILES == {
    <<112, 121, 112, 114, 111, 106, 101, 99, 116, 46, 116, 111, 109, 108>>,
    <<112, 121, 112, 114, 111, 106, 101, 99, 116, 46, 121, 97, 109, 108>>,
    <<112, 121, 112, 114, 111, 106, 101, 99, 116, 46, 121, 109, 108>> }

\* The base names that put their directory into markerMap.
MarkerFiles == {PackageJson, GoMod} \cup PYPROJECT_FILES

\* if (!filePath || filePath === ".") continue
Skipped(filePath) == Len(filePath) = 0 \/ filePath = Dot

\* The while loop that adds a directory and its ancestors to dirSet.
RECURSIVE AddDirs(_, _)
AddDirs(dirSet, dir) ==
    IF dir \in dirSet THEN dirSet
    ELSE IF dir = Dot THEN dirSet \cup {Dot}
    ELSE AddDirs(dirSet \cup {dir}, PosixDirname(dir))

\* dirSet after the first loop over fileList.
RECURSIVE DirSetOf(_)
DirSetOf(fileList) ==
    IF Len(fileList) = 0 THEN {}
    ELSE LET before   == DirSetOf(SubSeq(fileList, 1, Len(fileList) - 1))
             filePath == fileList[Len(fileList)]
         IN  IF Skipped(filePath) THEN before
             ELSE AddDirs(before, normalizeDirPath(PosixDirname(filePath)))

TopLevelDirsOf(fileList) ==
    { SplitSlash(fileList[i])[1] :
        i \in {j \in 1..Len(fileList) :
                 /\ ~Skipped(fileList[j])
                 /\ Includes(fileList[j], Chr.slash)
                 /\ Len(SplitSlash(fileList[j])[1]) > 0} }

\* markerMap.keys()
MarkerDirsOf(fileList) ==
    { normalizeDirPath(PosixDirname(fileList[i])) :
        i \in {j \in 1..Len(fileList) :
                 /\ ~Skipped(fileList[j])
                 /\ PosixBasename(fileList[j]) \in MarkerFiles} }

\* What getWorkspaceConfig returns for the globs and roots the configuration
\* files of the repository declare.
getWorkspaceConfig(config) ==
    [globs |-> normalizeGlobList(config.globs),
     roots |-> normalizeRootList(config.roots)]

WorkspaceConfigOf(config) ==
    IF config.useWorkspaceConfig THEN getWorkspaceConfig(config)
    ELSE [globs |-> <<>>, roots |-> <<>>]

WorkspaceGlobsOf(config) ==
    IF Len(config.workspacePatterns) > 0
    THEN normalizeGlobList(config.workspacePatterns)
    ELSE IF Len(WorkspaceConfigOf(config).globs) > 0
    THEN WorkspaceConfigOf(config).globs
    ELSE normalizeGlobList(config.fallbackWorkspacePatterns)

\* candidateRoots when the second loop starts.
CandidateRootsOf(fileList, config) ==
    LET markerDirs     == MarkerDirsOf(fileList)
        explicitRoots  == Range(WorkspaceConfigOf(config).roots)
        workspaceGlobs == WorkspaceGlobsOf(config)
        matchers       == compileGlobMatchers(workspaceGlobs)
        globRoots      == IF Len(workspaceGlobs) > 0
                          THEN {d \in DirSetOf(fileList) : matchesPatterns(d, matchers)}
                          ELSE {}
        hasNonRootMarkers == \E root \in markerDirs : root # Dot
        hasWorkspaceHints == Len(workspaceGlobs) > 0 \/ explicitRoots # {}
        topLevelDirs   == TopLevelDirsOf(fileList)
        fallbackRoots  == IF ~hasNonRootMarkers /\ ~hasWorkspaceHints /\ topLevelDirs # {}
                          THEN topLevelDirs ELSE {}
    IN  markerDirs \cup explicitRoots \cup globRoots \cup fallbackRoots \cup {Dot}

\* The loop of resolveModuleRoot from directory dir on; the cache is a function
\* from directories to roots.  Returns the root and the cache afterwards.
RECURSIVE ResolveFrom(_, _, _, _)
ResolveFrom(dir, visited, candidateRoots, cache) ==
    LET Remember(root, dirs) == [d \in dirs |-> root] @@ cache
    IN  IF dir \in DOMAIN cache
        THEN [root |-> cache[dir], cache |-> Remember(cache[dir], visited)]
        ELSE IF dir \in candidateRoots
        THEN [root |-> dir, cache |-> Remember(dir, visited \cup {dir})]
        ELSE IF dir = Dot
        THEN [root |-> Dot, cache |-> Remember(Dot, visited \cup {dir})]
        ELSE ResolveFrom(PosixDirname(dir), visited \cup {dir}, candidateRoots, cache)

resolveModuleRoot(filePath, candidateRoots, cache) ==
    ResolveFrom(PosixDirname(filePath), {}, candidateRoots, cache)

NoCache == [d \in {} |-> Dot]

\* The second loop: for each file of the list its module root (NoPath for a
\* file the loop skips), with the directory cache threaded through.
RECURSIVE AssignFiles(_, _)
AssignFiles(fileList, candidateRoots) ==
    IF Len(fileList) = 0 THEN [roots |-> <<>>, dirCache |-> NoCache]
    ELSE LET before   == AssignFiles(SubSeq(fileList, 1, Len(fileList) - 1), candidateRoots)
             filePath == fileList[Len(fileList)]
             resolved == resolveModuleRoot(filePath, candidateRoots, before.dirCache)
         IN  IF Skipped(filePath)
             THEN [roots |-> Append(before.roots, NoPath), dirCache |-> before.dirCache]
             ELSE [roots |-> Append(before.roots, resolved.root),
                   dirCache |-> resolved.cache]

\* ModuleInfo, its path and fileCount (name and language are not carried).
ModuleInfo(modulePath, fileCount) == [path |-> modulePath, fileCount |-> fileCount]

\* fileList: options.files.map(normalizePosixPath)
FileListOf(files) == [i \in 1..Len(files) |-> detectorNormalizePosixPath(files[i])]

\* The modules of moduleMap in ascending order of path, each with the number
\* of files the second loop gave it.
CatalogueFrom(roots, sortedPaths) ==
    [k \in 1..Len(sortedPaths) |->
        ModuleInfo(sortedPaths[k],
                   Cardinality({i \in 1..Len(roots) : roots[i] = sortedPaths[k]}))]

CatalogueOf(roots) == CatalogueFrom(roots, SortNames(Range(roots) \ {NoPath}))

DetectedFrom(roots, candidateRoots) ==
    [list |-> CatalogueOf(roots), roots |-> roots, candidateRoots |-> candidateRoots]

DetectedWith(fileList, candidateRoots) ==
    DetectedFrom(AssignFiles(fileList, candidateRoots).roots, candidateRoots)

DetectedIn(fileList, config) ==
    DetectedWith(fileList, CandidateRootsOf(fileList, config))

\* detectModules: the catalogue; with it the root of each file and the
\* candidate roots.
detectModules(files, config) == DetectedIn(FileListOf(files), config)

(***************************************************************************)
(* detectModules as a state machine: a file list as the walker returns it  *)
(* and a workspace configuration, then the call.                           *)
(***************************************************************************)
MaxModFiles == 3

BlankName == <<32>>                                                  \* " "

\* Paths the walker can return: a file whose name is one blank, a root file,
\* files of two top-level directories, files beside and under marker files,
\* files of two workspace packages.
ModPaths ==
    { BlankName,
      NameX,
      JoinRel(NameA, NameX),
      JoinRel(NameB, NameX),
      JoinRel(NameA, PackageJson),
      JoinRel(JoinRel(NameA, NameB), GoMod),
      JoinRel(JoinRel(PackagesName, NameA), NameX),
      JoinRel(JoinRel(PackagesName, NameB), NameX) }

FileLists ==
    { SortNames(ps) : ps \in {q \in SUBSET ModPaths : Cardinality(q) <= MaxModFiles} }

GlobPackages    == PackagesName \o <<47, 42>>                        \* "packages/*"
GlobNotPackageA == <<33>> \o JoinRel(PackagesName, NameA)            \* "!packages/a"
GlobUnderA      == <<97, 47, 42>>                                    \* "a/*"
RootPackages    == <<46, 47>> \o PackagesName \o <<47>>              \* "./packages/"

ModConfigs ==
    [workspacePatterns         : {<<>>, <<GlobUnderA>>},
     fallbackWorkspacePatterns : {DEFAULT_WORKSPACE_PATTERNS, <<>>},
     useWorkspaceConfig        : BOOLEAN,
     globs : {<<>>, <<GlobPackages, GlobNotPackageA>>,
              <<GlobPackages, GlobNotPackageA, GlobPackages>>},
     roots : {<<>>, <<RootPackages>>}]

NoModules == [done |-> FALSE, list |-> <<>>, roots |-> <<>>, candidateRoots |-> {}]

InitModules ==
    /\ modFiles \in FileLists
    /\ modConfig \in ModConfigs
    /\ modules = NoModules
    /\ WalkIdle /\ DiffIdle /\ CliIdle /\ IdxIdle /\ NormIdle /\ ResIdle

\* const modules = await detectModules({ repoRoot, files, ... })
Detect ==
    /\ ~modules.done
    /\ modules' = [done |-> TRUE] @@ detectModules(modFiles, modConfig)
    /\ UNCHANGED <<modFiles, modConfig>>
    /\ UNCHANGED <<walkVars, diffVars, cliVars, idxVars, normVars, resVars>>

NextModules == Detect

SpecModules == InitModules /\ [][NextModules]_vars

(***************************************************************************)
(* repomap build / update.  The repository is a function from the paths of *)
(* its files (regular, not ignored) to a content version; the output       *)
(* directory holds file_index.json and module_index.json.                  *)
(***************************************************************************)
LARGE_CHANGE_RATIO == <<1, 4>>          \* 0.25 as numerator and denominator
LARGE_CHANGE_COUNT == 5000

NxJson == <<110, 120, 46, 106, 115, 111, 110>>                        \* "nx.json"

WORKSPACE_CONFIG_FILES == {
    <<112, 110, 112, 109, 45, 119, 111, 114, 107, 115, 112, 97, 99, 101, 46, 121, 97, 109, 108>>,
    <<108, 101, 114, 110, 97, 46, 106, 115, 111, 110>>,
    <<114, 117, 115, 104, 46, 106, 115, 111, 110>>,
    NxJson,
    <<119, 111, 114, 107, 115, 112, 97, 99, 101, 46, 106, 115, 111, 110>> }

isWorkspaceConfigChange(filePath) ==
    LET normalized == normalizePosixPath(filePath)
    IN  IF normalized = PackageJson THEN TRUE
        ELSE IF ~Includes(normalized, Chr.slash)
        THEN normalized \in WORKSPACE_CONFIG_FILES
        ELSE FALSE

\* collectFiles({ root: ".", cwd: repoRoot, ... }) over a repository of regular,
\* not ignored files.
collectFiles(tr) == SortNames(DOMAIN tr)

\* hash of the content with version v
HashOf(v) == IF v = 1 THEN "h1" ELSE "h2"

\* buildEntry: size, mtime and hash follow the content version.
buildEntry(tr, filePath) == Entry(filePath, 1, tr[filePath], HashOf(tr[filePath]))

\* buildFileIndex: an entry per file of the list that is not skipped, sorted.
buildFileIndex(tr, files, hashAlgorithm) ==
    [hashAlgorithm |-> hashAlgorithm,
     files |-> SortSeq(
        SelectSeq([i \in 1..Len(files) |-> buildEntry(tr, files[i])],
                  LAMBDA entry : ~Skipped(normalizePosixPath(entry.path))),
        LAMBDA l, r : compareNames(l.path, r.path) < 0)]

\* The detector options of the CLI: defaults, and configuration files that
\* declare no workspaces.
CliModConfig ==
    [workspacePatterns |-> <<>>,
     fallbackWorkspacePatterns |-> DEFAULT_WORKSPACE_PATTERNS,
     useWorkspaceConfig |-> TRUE,
     globs |-> <<>>,
     roots |-> <<>>]

\* modulePathSet(modules)
modulePathSet(mods) == {normalizePosixPath(mods[i].path) : i \in 1..Len(mods)}

\* The keyword data of a module: here the files it owns with their content
\* versions, so that two data are equal iff the module owns the same files
\* with the same contents.
ModuleKeywords(modulePath, keywords) == [path |-> modulePath, keywords |-> keywords]

\* The keywords of one module from moduleFileMap.get(modulePath), the files
\* the loop of extractModuleKeywords resolved to it.
KeywordsOf(tr, fileList, roots, modulePath) ==
    LET owned == SelectSeq([i \in 1..Len(fileList) |-> i],
                           LAMBDA i : roots[i] = modulePath)
    IN  [j \in 1..Len(owned) |-> <<fileList[owned[j]], tr[fileList[owned[j]]]>>]

ExtractedFrom(tr, fileList, roots, sortedModulePaths) ==
    [k \in 1..Len(sortedModulePaths) |->
        ModuleKeywords(sortedModulePaths[k],
                       KeywordsOf(tr, fileList, roots, sortedModulePaths[k]))]

\* An entry for every module of moduleSet that is in options.modules or owns
\* a file, in ascending order of path.
ExtractedWith(tr, fileList, modulePaths, roots) ==
    ExtractedFrom(tr, fileList, roots,
                  SortNames(modulePaths \cup (Range(roots) \ {NoPath})))

ExtractedIn(tr, fileList, modulePaths) ==
    ExtractedWith(tr, fileList, modulePaths,
                  AssignFiles(fileList, modulePaths \cup {Dot}).roots)

\* extractModuleKeywords; it has no includeModules option.
extractModuleKeywords(tr, files, mods) ==
    ExtractedIn(tr, FileListOf(files), modulePathSet(mods))

\* keywordMap.get(path), undefined as a flag
KeywordLookup(list, modulePath) ==
    LET hits == {i \in 1..Len(list) : list[i].path = modulePath}
    IN  IF hits = {} THEN [found |-> FALSE, keywords |-> <<>>]
        ELSE [found |-> TRUE, keywords |-> list[Max(hits)].keywords]

\* mergeModuleKeywords without the previous index: what the merge must not be.
mergeModuleKeywordsWithoutPrevious(mods, hasPrevious, prevModules, updatedKeywords) ==
    [i \in 1..Len(mods) |->
        ModuleKeywords(mods[i].path, KeywordLookup(updatedKeywords, mods[i].path).keywords)]

\* mergeModuleKeywords: updated ?? previous ?? []
mergeModuleKeywords(mods, hasPrevious, prevModules, updatedKeywords) ==
    [i \in 1..Len(mods) |->
        ModuleKeywords(mods[i].path,
            IF KeywordLookup(updatedKeywords, mods[i].path).found
            THEN KeywordLookup(updatedKeywords, mods[i].path).keywords
            ELSE IF hasPrevious /\ KeywordLookup(prevModules, mods[i].path).found
            THEN KeywordLookup(prevModules, mods[i].path).keywords
            ELSE <<>>)]

\* buildModuleIndex: each module with its keywords, sorted by path.
buildModuleIndex(mods, keywords) ==
    SortSeq([i \in 1..Len(mods) |->
                [path |-> mods[i].path,
                 fileCount |-> mods[i].fileCount,
                 keywords |-> KeywordLookup(keywords, mods[i].path).keywords]],
            LAMBDA l, r : compareNames(l.path, r.path) < 0)

(***************************************************************************)
(* The update action, step by step as operators of the repository and the  *)
(* output directory it finds.                                              *)
(***************************************************************************)
\* previousIndex?.hashAlgorithm ?? "sha256"
UpdateHashAlgorithm(dk) ==
    IF dk.hasFileIndex THEN dk.fileIndex.hashAlgorithm ELSE "sha256"

\* The catalogue of the repository as the CLI asks for it.
CliModules(files) == detectModules(files, CliModConfig).list

\* changes: the diff against the previous index, or everything added.
UpdateChanges(dk, currentIndex) ==
    IF dk.hasFileIndex
    THEN diffFileIndex(dk.fileIndex, currentIndex)
    ELSE [hashAlgorithm |-> currentIndex.hashAlgorithm,
          added    |-> PathsOf(currentIndex.files),
          modified |-> <<>>,
          deleted  |-> <<>>]

\* The changed paths without the deleted ones: what they must not be.
ChangedPathListWithoutDeleted(chg) == Unique(chg.added \o chg.modified)

\* [...changes.added, ...changes.modified, ...changes.deleted] as a Set
ChangedPathList(chg) == Unique(chg.added \o chg.modified \o chg.deleted)

\* largeChange, with totalFiles = currentIndex.files.length || 1
LargeChange(changedCount, fileCount) ==
    LET totalFiles == IF fileCount = 0 THEN 1 ELSE fileCount
    IN  \/ changedCount >= LARGE_CHANGE_COUNT
        \/ changedCount * LARGE_CHANGE_RATIO[2] >= totalFiles * LARGE_CHANGE_RATIO[1]

WorkspaceChanged(changedPaths) ==
    \E i \in 1..Len(changedPaths) : isWorkspaceConfigChange(changedPaths[i])

\* The mode decision without the workspace trigger: what it must not be.
UpdateModeIgnoringWorkspace(dk, changedPaths, fileCount) ==
    IF ~dk.hasModuleIndex \/ LargeChange(Len(changedPaths), fileCount)
    THEN "full" ELSE "incremental"

\* if (!previousModuleIndex || workspaceChanged || largeChange) mode = "full"
UpdateMode(dk, changedPaths, fileCount) ==
    IF \/ ~dk.hasModuleIndex
       \/ WorkspaceChanged(changedPaths)
       \/ LargeChange(Len(changedPaths), fileCount)
    THEN "full" ELSE "incremental"

\* The loop over changedPaths for one root set: the root of each changed path,
\* the cache threaded through.
RECURSIVE ResolveAll(_, _)
ResolveAll(paths, moduleRoots) ==
    IF Len(paths) = 0 THEN [roots |-> {}, cache |-> NoCache]
    ELSE LET before   == ResolveAll(SubSeq(paths, 1, Len(paths) - 1), moduleRoots)
             resolved == resolveModuleRoot(normalizePosixPath(paths[Len(paths)]),
                                           moduleRoots, before.cache)
         IN  [roots |-> before.roots \cup {resolved.root}, cache |-> resolved.cache]

\* The modules of the catalogue the previous index does not know, by path or
\* by keywords.
UnknownModules(mods, previousModulePaths, prevModules) ==
    {mods[i].path : i \in {j \in 1..Len(mods) :
        \/ mods[j].path \notin previousModulePaths
        \/ ~KeywordLookup(prevModules, mods[j].path).found}}

\* changedModules marking every module of the catalogue: what it must not be.
ChangedModulesAll(mods, prevModules, changedPaths, modulePaths, previousModulePaths) ==
    modulePaths

\* changedModules without the roots of the previous run: what it must not be.
ChangedModulesCurrentOnly(mods, prevModules, changedPaths, modulePaths, previousModulePaths) ==
    ( UnknownModules(mods, previousModulePaths, prevModules)
      \cup ResolveAll(changedPaths, modulePaths).roots )
    \cap modulePaths

\* changedModules after the filter by modulePaths.
ChangedModulesIn(mods, prevModules, changedPaths, modulePaths, previousModulePaths) ==
    ( UnknownModules(mods, previousModulePaths, prevModules)
      \cup ResolveAll(changedPaths, modulePaths).roots
      \cup ResolveAll(changedPaths, previousModulePaths).roots )
    \cap modulePaths

\* modulePaths and previousModulePaths, each with "." added.
ChangedModules(mods, prevModules, changedPaths) ==
    ChangedModulesIn(mods, prevModules, changedPaths,
                     modulePathSet(mods) \cup {Dot},
                     modulePathSet(prevModules) \cup {Dot})

\* updatedKeywords: the extractor is called when changedModules is not empty.
UpdatedKeywords(tr, files, mods, changedModules) ==
    IF changedModules # {}
    THEN extractModuleKeywords(tr, files, mods)
    ELSE <<>>

\* moduleIndex of the update action, by mode.
UpdateModuleIndex(tr, dk, files, mods, mode, changedModules) ==
    IF mode = "full"
    THEN buildModuleIndex(mods, extractModuleKeywords(tr, files, mods))
    ELSE buildModuleIndex(mods,
            mergeModuleKeywords(mods, TRUE, dk.moduleIndex,
                                UpdatedKeywords(tr, files, mods, changedModules)))

\* What one update invocation computes and writes.
UpdateDecided(tr, dk, files, currentIndex, mods, changedPaths, mode, changedModules) ==
    [fileIndex      |-> currentIndex,
     moduleIndex    |-> UpdateModuleIndex(tr, dk, files, mods, mode, changedModules),
     mode           |-> mode,
     changedPaths   |-> changedPaths,
     modules        |-> mods,
     handed         |-> mode = "incremental" /\ changedModules # {},
     changedModules |-> IF mode = "incremental" THEN changedModules ELSE {}]

UpdateChanged(tr, dk, files, currentIndex, mods, changedPaths) ==
    UpdateDecided(tr, dk, files, currentIndex, mods, changedPaths,
                  UpdateMode(dk, changedPaths, Len(currentIndex.files)),
                  ChangedModules(mods, dk.moduleIndex, changedPaths))

UpdateIndexed(tr, dk, files, currentIndex, mods) ==
    UpdateChanged(tr, dk, files, currentIndex, mods,
                  ChangedPathList(UpdateChanges(dk, currentIndex)))

UpdateCollected(tr, dk, files) ==
    UpdateIndexed(tr, dk, files,
                  buildFileIndex(tr, files, UpdateHashAlgorithm(dk)),
                  CliModules(files))

updateAction(tr, dk) == UpdateCollected(tr, dk, collectFiles(tr))

\* What one build invocation writes.
BuildWritten(tr, files, mods) ==
    [fileIndex   |-> buildFileIndex(tr, files, "sha256"),
     moduleIndex |-> buildModuleIndex(mods, extractModuleKeywords(tr, files, mods)),
     modules     |-> mods]

BuildCollected(tr, files) == BuildWritten(tr, files, CliModules(files))

buildAction(tr) == BuildCollected(tr, collectFiles(tr))

(***************************************************************************)
(* build and update as a state machine, with the edits a developer makes   *)
(* to the repository between two runs.                                     *)
(***************************************************************************)
MaxRuns  == 2       \* invocations of build or update in one behaviour
MaxEdits == 1       \* edits between two invocations, completed or not

PathAY           == JoinRel(NameA, NameY)                             \* "a/y"
PathAPackageJson == JoinRel(NameA, PackageJson)                       \* "a/package.json"
PathBPackageJson == JoinRel(NameB, PackageJson)                       \* "b/package.json"
PathBX           == JoinRel(NameB, NameX)                             \* "b/x"

\* Two packages a and b with their manifests, a file at the root, the root
\* manifest and a workspace configuration file.
RepoPaths ==
    { PathAPackageJson, JoinRel(NameA, NameX), PathAY, PathBPackageJson, PathBX,
      NameX, PackageJson, NxJson }

TreeOf(paths) == [p \in paths |-> 1]

PackagesTree == TreeOf({PathAPackageJson, JoinRel(NameA, NameX), PathAY,
                        PathBPackageJson, PathBX})

\* One package a beside a root module with the manifest and nx.json.
RootedTree == TreeOf({PathAPackageJson, JoinRel(NameA, NameX), PathAY,
                      NameX, PackageJson, NxJson})

\* The package a, a directory b without a manifest and a file at the root.
LooseTree == TreeOf({PathAPackageJson, JoinRel(NameA, NameX), PathAY, PathBX, NameX})

InitialTrees ==
    { TreeOf({}),
      PackagesTree,
      PackagesTree @@ TreeOf({NameX}),
      RootedTree,
      LooseTree }

NoDisk ==
    [hasFileIndex   |-> FALSE, fileIndex   |-> [hashAlgorithm |-> "none", files |-> <<>>],
     hasModuleIndex |-> FALSE, moduleIndex |-> <<>>]

\* The paths whose file differs between two states of the repository.
EditedPaths(before, after) ==
    {p \in DOMAIN before \cup DOMAIN after :
        \/ p \notin DOMAIN before
        \/ p \notin DOMAIN after
        \/ before[p] # after[p]}

\* treeAtRun is the repository as the last completed run saw it, previousTree
\* as the completed run before it saw it, editedPaths the
\* paths edited between the completed run before it and that run, interrupted
\* whether a run was cut short since, afterInterrupted whether one was before it.
NoRun ==
    [count |-> 0, kind |-> "none", mode |-> "none",
     hadFileIndex |-> FALSE, hadModuleIndex |-> FALSE,
     changedPaths |-> <<>>, fileCount |-> 0, modules |-> <<>>,
     handed |-> FALSE, changedModules |-> {}, previousModules |-> <<>>,
     treeAtRun |-> <<>>, previousTree |-> <<>>, editedPaths |-> {},
     interrupted |-> FALSE, afterInterrupted |-> FALSE]

InitUpdate ==
    /\ tree \in InitialTrees
    /\ disk = NoDisk
    /\ run = NoRun
    /\ edits = 0
    /\ WalkIdle /\ DiffIdle /\ ModIdle /\ IdxIdle /\ NormIdle /\ ResIdle

BuildTo(outcome) ==
    /\ disk' = [hasFileIndex   |-> TRUE, fileIndex   |-> outcome.fileIndex,
                hasModuleIndex |-> TRUE, moduleIndex |-> outcome.moduleIndex]
    /\ run' = [NoRun EXCEPT !.count = run.count + 1, !.kind = "build",
                            !.fileCount = Len(outcome.fileIndex.files),
                            !.modules = outcome.modules,
                            !.treeAtRun = tree]

\* repomap build
Build ==
    /\ run.count < MaxRuns
    /\ BuildTo(buildAction(tree))
    /\ edits' = 0
    /\ UNCHANGED tree
    /\ UNCHANGED <<walkVars, diffVars, modVars, idxVars, normVars, resVars>>

UpdateTo(outcome) ==
    /\ disk' = [hasFileIndex   |-> TRUE, fileIndex   |-> outcome.fileIndex,
                hasModuleIndex |-> TRUE, moduleIndex |-> outcome.moduleIndex]
    /\ run' = [count |-> run.count + 1,
               kind  |-> "update",
               mode  |-> outcome.mode,
               hadFileIndex |-> disk.hasFileIndex,
               hadModuleIndex |-> disk.hasModuleIndex,
               changedPaths |-> outcome.changedPaths,
               fileCount |-> Len(outcome.fileIndex.files),
               modules |-> outcome.modules,
               handed |-> outcome.handed,
               changedModules |-> outcome.changedModules,
               previousModules |-> disk.moduleIndex,
               treeAtRun |-> tree,
               previousTree |-> run.treeAtRun,
               editedPaths |-> EditedPaths(run.treeAtRun, tree),
               interrupted |-> FALSE,
               afterInterrupted |-> run.interrupted]

\* repomap update
Update ==
    /\ run.count < MaxRuns
    /\ UpdateTo(updateAction(tree, disk))
    /\ edits' = 0
    /\ UNCHANGED tree
    /\ UNCHANGED <<walkVars, diffVars, modVars, idxVars, normVars, resVars>>

\* Edits are followed from the first run on, up to the last one.
CanEdit == edits < MaxEdits /\ 0 < run.count /\ run.count < MaxRuns

\* A developer creates a file,
AddFile ==
    /\ CanEdit
    /\ \E p \in RepoPaths \ DOMAIN tree : tree' = tree @@ TreeOf({p})
    /\ edits' = edits + 1
    /\ UNCHANGED <<disk, run>>
    /\ UNCHANGED <<walkVars, diffVars, modVars, idxVars, normVars, resVars>>

\* changes the content of one,
ModifyFile ==
    /\ CanEdit
    /\ \E p \in DOMAIN tree : tree' = [tree EXCEPT ![p] = 3 - tree[p]]
    /\ edits' = edits + 1
    /\ UNCHANGED <<disk, run>>
    /\ UNCHANGED <<walkVars, diffVars, modVars, idxVars, normVars, resVars>>

\* or removes one.
DeleteFile ==
    /\ CanEdit
    /\ \E p \in DOMAIN tree : tree' = [q \in DOMAIN tree \ {p} |-> tree[q]]
    /\ edits' = edits + 1
    /\ UNCHANGED <<disk, run>>
    /\ UNCHANGED <<walkVars, diffVars, modVars, idxVars, normVars, resVars>>

NextUpdate == Build \/ Update \/ AddFile \/ ModifyFile \/ DeleteFile

SpecUpdate == InitUpdate /\ [][NextUpdate]_vars

(***************************************************************************)
(* The same with what can happen to the output directory between two       *)
(* completed runs: a run cut short between its writes, an output file lost. *)
(***************************************************************************)
\* repomap update, the process ended between writeFileChangesFile and
\* writeModuleIndexFile: file_index.json is the new one, module_index.json the
\* old one.
UpdateInterrupted ==
    /\ 0 < run.count
    /\ run.count < MaxRuns
    /\ ~run.interrupted
    /\ disk' = [disk EXCEPT !.hasFileIndex = TRUE,
                            !.fileIndex = updateAction(tree, disk).fileIndex]
    /\ run' = [run EXCEPT !.interrupted = TRUE]
    /\ edits' = 0
    /\ UNCHANGED tree
    /\ UNCHANGED <<walkVars, diffVars, modVars, idxVars, normVars, resVars>>

\* Output files are lost right after a run, before the developer edits anything.
CanLose == edits = 0 /\ 0 < run.count /\ run.count < MaxRuns /\ ~run.interrupted

\* file_index.json is removed or left unreadable: readFileIndexFile gives null.
LoseFileIndex ==
    /\ CanLose
    /\ disk.hasFileIndex
    /\ disk' = [disk EXCEPT !.hasFileIndex = FALSE, !.fileIndex = NoDisk.fileIndex]
    /\ UNCHANGED <<tree, run, edits>>
    /\ UNCHANGED <<walkVars, diffVars, modVars, idxVars, normVars, resVars>>

\* module_index.json is removed or left unreadable: readModuleIndexFile gives null.
LoseModuleIndex ==
    /\ CanLose
    /\ disk.hasModuleIndex
    /\ disk' = [disk EXCEPT !.hasModuleIndex = FALSE, !.moduleIndex = NoDisk.moduleIndex]
    /\ UNCHANGED <<tree, run, edits>>
    /\ UNCHANGED <<walkVars, diffVars, modVars, idxVars, normVars, resVars>>

NextRecovery ==
    \/ Build \/ Update \/ AddFile \/ ModifyFile \/ DeleteFile
    \/ UpdateInterrupted \/ LoseFileIndex \/ LoseModuleIndex

SpecRecovery == InitUpdate /\ [][NextRecovery]_vars

(***************************************************************************)
(* buildFileIndex worker by worker, in a run of the pipeline: the caller    *)
(* hands the files in the order it enumerated them, the workers take them  *)
(* from the shared index, stat and hash them while files may disappear or  *)
(* become unreadable, and the run returns the sorted index and the         *)
(* catalogue of detectModules over the same list.  A second run follows on *)
(* the same tree with the files enumerated in another order.               *)
(***************************************************************************)
MaxListed      == 3     \* files handed to one run
MaxConcurrency == 2     \* options.concurrency
MaxFaults      == 1     \* files that disappear or become unreadable in a run

\* Two package manifests and a file at the root.
IndexedFiles == {PathAPackageJson, PathBPackageJson, NameX}

\* The strings a caller may list: the files, and "." which the workers skip.
ListedPaths == IndexedFiles \cup {Dot}

\* The lists of at most MaxListed pairwise distinct elements of S.
ListsOf(S) ==
    UNION { {l \in [1..n -> S] : \A i, j \in 1..n : l[i] = l[j] => i = j} :
              n \in 0..MaxListed }

\* const files = options.files.map(normalizePosixPath)
IndexFileList(listed) == [i \in 1..Len(listed) |-> normalizePosixPath(listed[i])]

\* Math.min(Math.max(1, options.concurrency), files.length)
WorkerCount(opts) == Min({Max({1, opts.concurrency}), Len(opts.files)})

Worker(pc, filePath) == [pc |-> pc, filePath |-> filePath]

StartedWorkers(opts) == [w \in 1..WorkerCount(opts) |-> Worker("loop", NoPath)]

NoBuilt == [done |-> FALSE, listed |-> <<>>, files |-> <<>>, modules |-> <<>>]

\* Promise.race in place of Promise.all: one worker has finished.
AnySettled(ws) == ws = <<>> \/ \E w \in DOMAIN ws : ws[w].pc = "done"

\* await Promise.all(workers)
AllSettled(ws) == \A w \in DOMAIN ws : ws[w].pc = "done"

\* buildFileIndex without its entries.sort(...).
SortEntriesNot(list) == list

\* entries.sort((a, b) => compareNames(a.path, b.path))
SortEntries(list) == SortSeq(list, LAMBDA l, r : compareNames(l.path, r.path) < 0)

InitIndex ==
    /\ repo = [p \in IndexedFiles |-> "ok"]
    /\ indexOpts \in [files : {IndexFileList(l) : l \in ListsOf(ListedPaths)},
                      concurrency : 0..MaxConcurrency]
    /\ nextIndex = 0
    /\ indexEntries = <<>>
    /\ workers = StartedWorkers(indexOpts)
    /\ built = NoBuilt
    /\ firstRun = NoBuilt
    /\ faults = 0
    /\ claimed = <<>>
    /\ WalkIdle /\ DiffIdle /\ ModIdle /\ CliIdle /\ NormIdle /\ ResIdle

\* `current` for the worker that reads `index` when it is n.
Claim(w, n) == [position |-> n, worker |-> w]

\* const current = index; index += 2;
WorkerTakeEveryOther(w) ==
    /\ workers[w].pc = "loop"
    /\ nextIndex' = nextIndex + 2
    /\ claimed' = IF nextIndex >= Len(indexOpts.files) THEN claimed
                  ELSE Append(claimed, Claim(w, nextIndex))
    /\ workers' = [workers EXCEPT ![w] =
          IF nextIndex >= Len(indexOpts.files) THEN Worker("done", NoPath)
          ELSE IF Skipped(indexOpts.files[nextIndex + 1]) THEN Worker("loop", NoPath)
          ELSE Worker("stat", indexOpts.files[nextIndex + 1])]
    /\ UNCHANGED <<repo, indexOpts, indexEntries, built, firstRun, faults>>
    /\ UNCHANGED <<walkVars, diffVars, modVars, cliVars, normVars, resVars>>

\* const current = index; index += 1; and the two tests that follow.  No
\* await stands between the read and the increment.
WorkerTake(w) ==
    /\ workers[w].pc = "loop"
    /\ nextIndex' = nextIndex + 1
    /\ claimed' = IF nextIndex >= Len(indexOpts.files) THEN claimed
                  ELSE Append(claimed, Claim(w, nextIndex))
    /\ workers' = [workers EXCEPT ![w] =
          IF nextIndex >= Len(indexOpts.files) THEN Worker("done", NoPath)
          ELSE IF Skipped(indexOpts.files[nextIndex + 1]) THEN Worker("loop", NoPath)
          ELSE Worker("stat", indexOpts.files[nextIndex + 1])]
    /\ UNCHANGED <<repo, indexOpts, indexEntries, built, firstRun, faults>>
    /\ UNCHANGED <<walkVars, diffVars, modVars, cliVars, normVars, resVars>>

\* buildEntry: await fs.stat(absPath); a failure is caught and gives null.
WorkerStat(w) ==
    /\ workers[w].pc = "stat"
    /\ workers' = [workers EXCEPT ![w] =
          IF repo[workers[w].filePath] = "gone" THEN Worker("loop", NoPath)
          ELSE Worker("hash", workers[w].filePath)]
    /\ UNCHANGED <<repo, indexOpts, nextIndex, indexEntries, built, firstRun, faults, claimed>>
    /\ UNCHANGED <<walkVars, diffVars, modVars, cliVars, normVars, resVars>>

\* buildEntry: await hashFile(...), null when the stream fails; entries.push.
WorkerHash(w) ==
    /\ workers[w].pc = "hash"
    /\ indexEntries' = Append(indexEntries,
          Entry(workers[w].filePath, 1, 1,
                IF repo[workers[w].filePath] = "ok" THEN HashOf(1) ELSE NoHash))
    /\ workers' = [workers EXCEPT ![w] = Worker("loop", NoPath)]
    /\ UNCHANGED <<repo, indexOpts, nextIndex, built, firstRun, faults, claimed>>
    /\ UNCHANGED <<walkVars, diffVars, modVars, cliVars, normVars, resVars>>

\* The rest of buildFileIndex, and detectModules over the same list.
IndexReturn ==
    /\ ~built.done
    /\ AllSettled(workers)
    /\ built' = [done    |-> TRUE,
                 listed  |-> indexOpts.files,
                 files   |-> SortEntries(indexEntries),
                 modules |-> detectModules(indexOpts.files, CliModConfig).list]
    /\ UNCHANGED <<repo, indexOpts, nextIndex, indexEntries, workers, firstRun, faults, claimed>>
    /\ UNCHANGED <<walkVars, diffVars, modVars, cliVars, normVars, resVars>>

CanFail(p) ==
    /\ ~built.done
    /\ ~firstRun.done
    /\ faults < MaxFaults
    /\ repo[p] = "ok"
    /\ p \in Range(indexOpts.files)

\* A listed file is removed while the run is under way,
FileDisappears ==
    /\ \E p \in IndexedFiles : CanFail(p) /\ repo' = [repo EXCEPT ![p] = "gone"]
    /\ faults' = faults + 1
    /\ UNCHANGED <<indexOpts, nextIndex, indexEntries, workers, built, firstRun, claimed>>
    /\ UNCHANGED <<walkVars, diffVars, modVars, cliVars, normVars, resVars>>

\* or loses its read permission.
FileUnreadable ==
    /\ \E p \in IndexedFiles : CanFail(p) /\ repo' = [repo EXCEPT ![p] = "unreadable"]
    /\ faults' = faults + 1
    /\ UNCHANGED <<indexOpts, nextIndex, indexEntries, workers, built, firstRun, claimed>>
    /\ UNCHANGED <<walkVars, diffVars, modVars, cliVars, normVars, resVars>>

\* The next run on the tree, nothing having changed: the same files, in
\* whatever order they are enumerated this time.
RunAgain ==
    /\ built.done
    /\ ~firstRun.done
    /\ faults = 0
    /\ firstRun' = built
    /\ \E l \in ListsOf(Range(indexOpts.files)) :
          /\ Len(l) = Len(indexOpts.files)
          /\ indexOpts' = [indexOpts EXCEPT !.files = l]
    /\ nextIndex' = 0
    /\ claimed' = <<>>
    /\ indexEntries' = <<>>
    /\ workers' = StartedWorkers(indexOpts)
    /\ built' = NoBuilt
    /\ UNCHANGED <<repo, faults>>
    /\ UNCHANGED <<walkVars, diffVars, modVars, cliVars, normVars, resVars>>

NextIndex ==
    \/ \E w \in DOMAIN workers : WorkerTake(w) \/ WorkerStat(w) \/ WorkerHash(w)
    \/ IndexReturn
    \/ FileDisappears
    \/ FileUnreadable
    \/ RunAgain

SpecIndex == InitIndex /\ [][NextIndex]_vars

\* One turn of a worker's loop.  A worker that can go on does go on: its
\* await is settled by the file system and the event loop resumes it.
WorkerTurn(w) ==
    w \in DOMAIN workers /\ (WorkerTake(w) \/ WorkerStat(w) \/ WorkerHash(w))

SpecIndexFair ==
    InitIndex /\ [][NextIndex]_vars /\ \A w \in 1..MaxConcurrency : WF_vars(WorkerTurn(w))

(***************************************************************************)
(* normalizePosixPath on its own: one string, normalised by buildFileIndex *)
(* and once more by the CLI when it looks at the paths that changed.       *)
(***************************************************************************)
MaxPathLen == 5

\* A letter, ".", "/", "\" and a space.
PathChars == {97, Chr.dot, Chr.slash, Chr.backslash, Chr.space}

PathStrings == UNION {[1..n -> PathChars] : n \in 0..MaxPathLen}

NoCanonical == [done |-> FALSE, again |-> FALSE, fileIndex |-> NoPath,
                detector |-> NoPath, second |-> NoPath]

InitNorm ==
    /\ rawPath \in PathStrings
    /\ canonical = NoCanonical
    /\ WalkIdle /\ DiffIdle /\ ModIdle /\ CliIdle /\ IdxIdle /\ ResIdle

\* normalizePosixPath(value), by the copy of the file index (the CLI, the
\* walker and the keyword extractor have the same text) and by the copy of
\* the module detector.
Normalize ==
    /\ ~canonical.done
    /\ canonical' = [canonical EXCEPT !.done = TRUE,
                                      !.fileIndex = normalizePosixPath(rawPath),
                                      !.detector = detectorNormalizePosixPath(rawPath)]
    /\ UNCHANGED rawPath
    /\ UNCHANGED <<walkVars, diffVars, modVars, cliVars, idxVars, resVars>>

\* isWorkspaceConfigChange: normalizePosixPath(filePath) over a path of the
\* FileIndex, which buildFileIndex normalised.
NormalizeAgain ==
    /\ canonical.done
    /\ ~canonical.again
    /\ canonical' = [canonical EXCEPT !.again = TRUE,
                                      !.second = normalizePosixPath(canonical.fileIndex)]
    /\ UNCHANGED rawPath
    /\ UNCHANGED <<walkVars, diffVars, modVars, cliVars, idxVars, resVars>>

NextNorm == Normalize \/ NormalizeAgain

SpecNorm == InitNorm /\ [][NextNorm]_vars

(***************************************************************************)
(* resolveModuleRoot turn by turn of its `while (true)`: calls follow one  *)
(* another on one cache and one set of candidate roots, as in the second   *)
(* loop of detectModules and in the update action of the CLI.  `visited`   *)
(* is kept as the set of its elements, which is all the code uses of it.   *)
(***************************************************************************)
MaxResolutions == 3

\* "x", "a/x", "a/y", "a/a/x", "b/x", "../x" and the absolute "/x".
ResolvePaths ==
    {NameX, JoinRel(NameA, NameX), JoinRel(NameA, NameY), JoinRel(PathAA, NameX),
     JoinRel(NameB, NameX), JoinRel(<<46, 46>>, NameX), Slash \o NameX}

ResolveRoots == SUBSET {Dot, NameA, PathAA, NameB}

NoResolution == [active |-> FALSE, filePath |-> NoPath, dir |-> NoPath,
                 visited |-> {}, root |-> NoPath]

InitResolve ==
    /\ rootSet \in ResolveRoots
    /\ rootCache = NoCache
    /\ resolution = NoResolution
    /\ resolutions = 0
    /\ WalkIdle /\ DiffIdle /\ ModIdle /\ CliIdle /\ IdxIdle /\ NormIdle

\* for (const entry of visited) cache.set(entry, root); return root
Returned(root, visited) ==
    /\ rootCache' = [d \in visited |-> root] @@ rootCache
    /\ resolution' = [resolution EXCEPT !.active = FALSE, !.visited = visited,
                                        !.root = root]
    /\ UNCHANGED <<rootSet, resolutions>>
    /\ UNCHANGED <<walkVars, diffVars, modVars, cliVars, idxVars, normVars>>

\* let dir = path.posix.dirname(filePath); const visited = []
ResolveCall ==
    /\ ~resolution.active
    /\ resolutions < MaxResolutions
    /\ \E filePath \in ResolvePaths :
          resolution' = [active |-> TRUE, filePath |-> filePath,
                         dir |-> PosixDirname(filePath), visited |-> {},
                         root |-> NoPath]
    /\ resolutions' = resolutions + 1
    /\ UNCHANGED <<rootSet, rootCache>>
    /\ UNCHANGED <<walkVars, diffVars, modVars, cliVars, idxVars, normVars>>

\* const cached = cache.get(dir); if (cached) { ... return cached }
Cached(dir) == dir \in DOMAIN rootCache /\ Len(rootCache[dir]) > 0

ResolveCached ==
    /\ resolution.active
    /\ Cached(resolution.dir)
    /\ Returned(rootCache[resolution.dir], resolution.visited)

\* visited.push(dir); if (candidateRoots.has(dir)) { ... return dir }
ResolveAtRoot ==
    /\ resolution.active
    /\ ~Cached(resolution.dir)
    /\ resolution.dir \in rootSet
    /\ Returned(resolution.dir, resolution.visited \cup {resolution.dir})

\* if (dir === ".") { ... return "." }
ResolveAtDot ==
    /\ resolution.active
    /\ ~Cached(resolution.dir)
    /\ resolution.dir \notin rootSet
    /\ resolution.dir = Dot
    /\ Returned(Dot, resolution.visited \cup {resolution.dir})

\* dir = path.posix.dirname(dir)
ResolveUp ==
    /\ resolution.active
    /\ ~Cached(resolution.dir)
    /\ resolution.dir \notin rootSet
    /\ resolution.dir # Dot
    /\ resolution' = [resolution EXCEPT !.dir = PosixDirname(resolution.dir),
                                        !.visited = @ \cup {resolution.dir}]
    /\ UNCHANGED <<rootSet, rootCache, resolutions>>
    /\ UNCHANGED <<walkVars, diffVars, modVars, cliVars, idxVars, normVars>>

\* One turn of the loop.  The function is synchronous: a turn that can be
\* taken is taken.
ResolveTurn == ResolveCached \/ ResolveAtRoot \/ ResolveAtDot \/ ResolveUp

NextResolve == ResolveCall \/ ResolveCached \/ ResolveAtRoot \/ ResolveAtDot \/ ResolveUp

SpecResolve == InitResolve /\ [][NextResolve]_vars /\ WF_vars(ResolveTurn)

(***************************************************************************)
(* Claims about the walk.                                                  *)
(***************************************************************************)
\* Lexicographic order of two lists of path segments, each segment by code unit.
RECURSIVE SegmentsLess(_, _)
SegmentsLess(left, right) ==
    IF Len(right) = 0 THEN FALSE
    ELSE IF Len(left) = 0 THEN TRUE
    ELSE IF left[1] = right[1] THEN SegmentsLess(Tail(left), Tail(right))
    ELSE StrLess(left[1], right[1])

PathAX  == JoinRel(NameA, NameX)                                  \* "a/x"
PathPkgF   == JoinRel(JoinRel(NodeModulesName, PkgName), NameF)   \* "node_modules/pkg/f"
PathOtherF == JoinRel(JoinRel(NodeModulesName, OtherName), NameF) \* "node_modules/other/f"

\* C1, as claimed: the paths yielded are strictly ascending under ordinal
\* comparison of the full repository-relative paths.
C1_AscendingByFullPath ==
    \A i \in 1..(Len(yielded) - 1) : StrLess(yielded[i], yielded[i + 1])

\* C1, amended: the paths yielded are strictly ascending when compared segment
\* by segment (each segment by ordinal comparison), that is in depth-first
\* order with the siblings of every directory ascending by name.
C1_AscendingBySegments ==
    \A i \in 1..(Len(yielded) - 1) :
        SegmentsLess(SplitSlash(yielded[i]), SplitSlash(yielded[i + 1]))

\* A finished walk of a tree where the directory "a" is a proper prefix of its
\* sibling file "a.b", both yielding a path.
C1_Witness ==
    /\ WalkDone
    /\ PathAX \in Range(yielded)
    /\ NameAB \in Range(yielded)

\* C2: with the default ignore `node_modules/` and the override
\* `!node_modules/pkg/**`, a walk (with no depth bound) yields the file under
\* node_modules/pkg/ and no file under node_modules/other/.
C2_NegationReincludesPkg ==
    ( /\ WalkDone
      /\ walkOpts.ignoreGlobs = OverridePkg
      /\ ~walkOpts.hasMaxDepth
      /\ PathPkgF \in DOMAIN fs )
    => ( /\ PathPkgF \in Range(yielded)
         /\ PathOtherF \notin Range(yielded) )

(***************************************************************************)
(* Claims about the walk: failures, symbolic links, the depth bound.       *)
(***************************************************************************)
RootIsDirectory == EmptyStr \in DOMAIN fs /\ fs[EmptyStr].kind = "dir"

\* C16: when the root does not exist or is not a directory, a finished walk
\* has surfaced an error to the caller (here: at the very least its onError
\* sink, when it gave one, was called) and has yielded no path.
C16_BadRootIsAnError ==
    (WalkDone /\ ~RootIsDirectory /\ walkOpts.hasOnError) =>
        /\ \E i \in 1..Len(ioErrors) : ioErrors[i].passed
        /\ yielded = <<>>

PathAL == JoinRel(NameA, NameL)                                   \* "a/l"

\* a/l is a symbolic link whose target does not exist, and its sibling a/x is
\* a file that no ignore rule and no depth bound keeps from the walk.
BrokenLinkBesideFile ==
    /\ PathAL \in DOMAIN fs
    /\ fs[PathAL].to \notin DOMAIN fs
    /\ PathAX \in DOMAIN fs
    /\ walkOpts.symlinkPolicy # "skip"
    /\ ~ExceedsMaxDepth(1)
    /\ ~(walkOpts.useGitignore /\ GitignoreName \in DOMAIN fs)

\* C17: every I/O failure on an entry (a directory that cannot be opened, a
\* link whose target cannot be examined, a .gitignore that cannot be read) is
\* passed to the caller's onError, and the walk goes on: the file beside a
\* failing link is still yielded.
C17_FailuresReportedWalkContinues ==
    /\ walkOpts.hasOnError =>
          \A i \in 1..Len(ioErrors) : ioErrors[i].path # EmptyStr => ioErrors[i].passed
    /\ (WalkDone /\ BrokenLinkBesideFile) => PathAX \in Range(yielded)

\* The walk path names a symbolic link.
IsSymlink(w) ==
    /\ Len(w) > 0
    /\ Real(fs, ParentRel(w)) # NoPath
    /\ JoinRel(Real(fs, ParentRel(w)), PosixBasename(w)) \in DOMAIN fs
    /\ fs[JoinRel(Real(fs, ParentRel(w)), PosixBasename(w))].kind = "link"

\* C18: under `skip` no symbolic link is yielded or entered; under
\* `follow-file` a link is yielded only when it resolves to a regular file and
\* none is entered; a link is entered only under `follow-all`, and whatever
\* the policy a link that is yielded resolves to a regular file.
C18_SymlinkPolicy ==
    /\ \A i \in 1..Len(yielded) :
          IsSymlink(yielded[i]) =>
              /\ walkOpts.symlinkPolicy # "skip"
              /\ StatKind(fs, yielded[i]) = "file"
    /\ \A i \in 1..Len(entered) :
          IsSymlink(entered[i][1]) => walkOpts.symlinkPolicy = "follow-all"

\* A finished walk under follow-file of a tree with a link to a regular file,
\* which was yielded.
C18_Witness ==
    /\ WalkDone
    /\ walkOpts.symlinkPolicy = "follow-file"
    /\ PathAL \in Range(yielded)
    /\ IsSymlink(PathAL)

\* The depth of the directory a path lies in, the root being at depth 0.
DirDepth(w) == Len(SplitSlash(w)) - 1

\* C19: with a depth bound no file is yielded from a directory deeper than
\* maxDepth, no directory deeper than the bound is opened, read for its
\* .gitignore or resolved (so none fails), and the entries that remain are
\* still walked.
C19_DepthBound ==
    walkOpts.hasMaxDepth =>
        /\ \A i \in 1..Len(yielded) : DirDepth(yielded[i]) <= walkOpts.maxDepth
        /\ \A i \in 1..Len(entered) :
              entered[i][1] = EmptyStr \/ DirDepth(entered[i][1]) + 1 <= walkOpts.maxDepth
        /\ \A i \in 1..Len(ioErrors) :
              ioErrors[i].op \in {"opendir", "realpath"} =>
                  \/ ioErrors[i].path = EmptyStr
                  \/ DirDepth(ioErrors[i].path) + 1 <= walkOpts.maxDepth

\* A finished walk with maxDepth 0 of a tree whose directory a holds a file:
\* the file a.b, which comes after a in the root, was yielded.
C19_Witness ==
    /\ WalkDone
    /\ walkOpts.hasMaxDepth
    /\ walkOpts.maxDepth = 0
    /\ PathAX \in DOMAIN fs
    /\ NameAB \in Range(yielded)

\* C27: under follow-all no two entered directories have the same real path,
\* and the real path of every entered directory is the real root or lies
\* below it.
C27_NoRealPathTwiceNoneOutside ==
    walkOpts.symlinkPolicy = "follow-all" =>
        /\ \A i, j \in 1..Len(entered) :
              (entered[i][2] = entered[j][2] /\ entered[i][2] # NoPath) => i = j
        /\ \A i \in 1..Len(entered) :
              entered[i][2] # NoPath => ~StartsWith(entered[i][2], <<46, 46>>)

\* A finished walk under follow-all of a tree where a/l is a link to the
\* directory b: b was entered once, through the link.
C27_Witness ==
    /\ WalkDone
    /\ walkOpts.symlinkPolicy = "follow-all"
    /\ PathAL \in DOMAIN fs
    /\ fs[PathAL].to = NameB
    /\ <<PathAL, NameB>> \in Range(entered)
    /\ JoinRel(PathAL, NameY) \in Range(yielded)

\* C28: every walk comes to an empty stack and stays there, whatever the
\* tree, the policy and the calls that fail.
C28_WalkTerminates == <>[]WalkDone

\* A finished walk under follow-all of a tree where a/l is a link back to the
\* root.
C28_Witness ==
    /\ WalkDone
    /\ walkOpts.symlinkPolicy = "follow-all"
    /\ PathAL \in DOMAIN fs
    /\ fs[PathAL].to = EmptyStr
    /\ NameA \in {entered[i][1] : i \in 1..Len(entered)}

(***************************************************************************)
(* Claims about the ignore rules in a walk.  The verdict on a path is      *)
(* stated from the tree alone: the layers that apply to the path are the   *)
(* default ignores, the .gitignore of each directory above it from the     *)
(* root down, and the override patterns; the last layer with a matching    *)
(* rule decides.                                                           *)
(***************************************************************************)
\* The directories above a path, the root ("") first.
DirsAbove(p) ==
    LET segs == SplitSlash(p)
    IN  [k \in 1..Len(segs) |-> JoinSlash(SubSeq(segs, 1, k - 1))]

PathBelow(p, dir) ==
    IF Len(dir) = 0 THEN p ELSE SubSeq(p, Len(dir) + 2, Len(p))

GitignoreLayer(tr, dir) ==
    [base  |-> dir,
     rules |-> IF walkOpts.useGitignore
               THEN GitignoreRules(tr, JoinRel(dir, GitignoreName)) ELSE <<>>]

LayersOf(tr, p) ==
    <<[base |-> EmptyStr, rules |-> DEFAULT_IGNORES]>>
        \o [k \in 1..Len(DirsAbove(p)) |-> GitignoreLayer(tr, DirsAbove(p)[k])]
        \o <<[base |-> EmptyStr, rules |-> walkOpts.ignoreGlobs]>>

LayerResult(layer, p, isDir) == IgnoreTest(layer.rules, PathBelow(p, layer.base), isDir)

LayerDecides(layer, p, isDir) ==
    LayerResult(layer, p, isDir).ignored \/ LayerResult(layer, p, isDir).unignored

\* The last layer with a matching rule says ignored.
LastLayerIgnores(tr, p, isDir) ==
    LET layers == LayersOf(tr, p)
        hits   == {i \in 1..Len(layers) : LayerDecides(layers[i], p, isDir)}
    IN  hits # {} /\ LayerResult(layers[Max(hits)], p, isDir).ignored

\* The files a walk reaches: no directory above them is ignored.
ReachedFiles(tr) ==
    {p \in DOMAIN tr :
        /\ tr[p].kind = "file"
        /\ \A k \in 2..Len(DirsAbove(p)) : ~LastLayerIgnores(tr, DirsAbove(p)[k], TRUE)}

ExpectedYield(tr) == {p \in ReachedFiles(tr) : ~LastLayerIgnores(tr, p, FALSE)}

ExpectedEntered(tr) ==
    {d \in DOMAIN tr :
        /\ tr[d].kind = "dir"
        /\ Len(d) > 0 => ~LastLayerIgnores(tr, d, TRUE)
        /\ \A k \in 2..Len(DirsAbove(d)) : ~LastLayerIgnores(tr, DirsAbove(d)[k], TRUE)}

EnteredDirs == {entered[i][1] : i \in 1..Len(entered)}

OverrideLayer == [base |-> EmptyStr, rules |-> walkOpts.ignoreGlobs]

\* C25: the verdict on every path of a walk is that of the last layer with a
\* matching rule, the layers taken in the order default ignores, .gitignore
\* files from the root down, override patterns; when the override patterns
\* have a matching rule the verdict is theirs; the root is never ignored.
C25_LastLayerDecides ==
    WalkDone =>
        /\ Range(yielded) = ExpectedYield(fs)
        /\ EnteredDirs = ExpectedEntered(fs)
        /\ EmptyStr \in EnteredDirs
        /\ \A p \in ReachedFiles(fs) :
              LayerDecides(OverrideLayer, p, FALSE) =>
                  (p \in Range(yielded) <=> LayerResult(OverrideLayer, p, FALSE).unignored)

\* A finished walk with the override pattern `x` over a tree whose a/.gitignore
\* says `!x`: a/x was not yielded, a/y was.
C25_Witness ==
    /\ WalkDone
    /\ walkOpts.useGitignore
    /\ walkOpts.ignoreGlobs = IgnoreX
    /\ GitignoreRules(fs, JoinRel(NameA, GitignoreName)) = UnignoreX
    /\ PathAX \notin Range(yielded)
    /\ PathAY \in Range(yielded)

\* The tree without the .gitignore of a directory.
WithoutGitignore(tr, dir) ==
    [q \in DOMAIN tr \ {JoinRel(dir, GitignoreName)} |-> tr[q]]

InsideOf(p, dir) == Len(dir) = 0 \/ StartsWith(p, dir \o Slash)

DirsWithGitignore ==
    {d \in DOMAIN fs : fs[d].kind = "dir" /\ JoinRel(d, GitignoreName) \in DOMAIN fs}

\* C26: for a directory D with a .gitignore, every file outside the subtree of
\* D is yielded exactly when it is in the tree without that .gitignore, and
\* D itself is entered exactly when it is there.
C26_GitignoreScopedToSubtree ==
    WalkDone =>
        \A D \in DirsWithGitignore :
            /\ \A p \in DOMAIN fs :
                  (fs[p].kind = "file" /\ ~InsideOf(p, D)) =>
                      (p \in Range(yielded) <=> p \in ExpectedYield(WithoutGitignore(fs, D)))
            /\ \A d \in DOMAIN fs :
                  (fs[d].kind = "dir" /\ ~InsideOf(d, D)) =>
                      (d \in EnteredDirs <=> d \in ExpectedEntered(WithoutGitignore(fs, D)))

\* A finished walk of a tree whose a/.gitignore says `y` and that has no other
\* rule on y: a/y was not yielded, b/y was, and a was entered.
C26_Witness ==
    /\ WalkDone
    /\ walkOpts.useGitignore
    /\ GitignoreRules(fs, JoinRel(NameA, GitignoreName)) = IgnoreY
    /\ PathAY \notin Range(yielded)
    /\ JoinRel(NameB, NameY) \in Range(yielded)
    /\ NameA \in EnteredDirs

(***************************************************************************)
(* Claims about diffFileIndex.                                             *)
(***************************************************************************)
IndexPaths(index) == {index.files[i].path : i \in 1..Len(index.files)}

\* A list of paths in ascending order, no path twice.
Ascending(paths) == \A i \in 1..(Len(paths) - 1) : StrLess(paths[i], paths[i + 1])

\* The entry of a path in an index whose paths are pairwise distinct.
EntryAt(index, path) ==
    index.files[CHOOSE i \in 1..Len(index.files) : index.files[i].path = path]

\* C7: added is exactly the paths in current and not in previous, deleted
\* exactly those in previous and not in current, modified exactly the shared
\* paths whose hashes differ when both indexes use the same algorithm and both
\* hashes are non-null, and whose size or mtime differ otherwise; each list is
\* ascending.
C7_DiffIsExact ==
    changes.done =>
        /\ Range(changes.added) = IndexPaths(current) \ IndexPaths(previous)
        /\ Range(changes.deleted) = IndexPaths(previous) \ IndexPaths(current)
        /\ Range(changes.modified) =
             { p \in IndexPaths(previous) \cap IndexPaths(current) :
                 LET a == EntryAt(previous, p)
                     b == EntryAt(current, p)
                 IN  IF /\ previous.hashAlgorithm = current.hashAlgorithm
                        /\ a.hash # NoHash
                        /\ b.hash # NoHash
                     THEN a.hash # b.hash
                     ELSE a.size # b.size \/ a.mtimeMs # b.mtimeMs }
        /\ Ascending(changes.added)
        /\ Ascending(changes.modified)
        /\ Ascending(changes.deleted)

\* A diff across a hash-algorithm mismatch of a shared path whose hashes differ
\* and whose size and mtime agree, next to an added and a deleted path.
C7_Witness ==
    /\ changes.done
    /\ previous.hashAlgorithm # current.hashAlgorithm
    /\ changes.added # <<>>
    /\ changes.deleted # <<>>
    /\ \E p \in IndexPaths(previous) \cap IndexPaths(current) :
          /\ EntryAt(previous, p).hash # NoHash
          /\ EntryAt(current, p).hash # NoHash
          /\ EntryAt(previous, p).hash # EntryAt(current, p).hash
          /\ p \notin Range(changes.modified)

\* C8: for two indexes with the same hash algorithm, added and deleted are
\* disjoint, and every path of B not in deleted is a path of A or is in added.
C8_DiffRoundTrip ==
    (changes.done /\ previous.hashAlgorithm = current.hashAlgorithm) =>
        /\ Range(changes.added) \cap Range(changes.deleted) = {}
        /\ \A p \in IndexPaths(current) \ Range(changes.deleted) :
              p \in IndexPaths(previous) \/ p \in Range(changes.added)

\* A diff under one algorithm with a path added, a path deleted and a path kept.
C8_Witness ==
    /\ changes.done
    /\ previous.hashAlgorithm = current.hashAlgorithm
    /\ changes.added # <<>>
    /\ changes.deleted # <<>>
    /\ IndexPaths(previous) \cap IndexPaths(current) # {}

(***************************************************************************)
(* Claims about detectModules.                                             *)
(***************************************************************************)
\* The candidate roots that are ancestor directories of a file; "." is one of
\* every file.
AncestorRoots(filePath, candidateRoots) ==
    {r \in candidateRoots : r = Dot \/ StartsWith(filePath, r \o Slash)}

\* The deepest of them: the one with the longest path, "." when alone.
DeepestRoot(filePath, candidateRoots) ==
    LET above == AncestorRoots(filePath, candidateRoots) \ {Dot}
    IN  IF above = {} THEN Dot
        ELSE CHOOSE r \in above : \A o \in above : Len(o) <= Len(r)

RECURSIVE SumFileCounts(_)
SumFileCounts(list) ==
    IF Len(list) = 0 THEN 0
    ELSE list[1].fileCount + SumFileCounts(Tail(list))

\* C9: detectModules assigns every input file to exactly one module, the
\* deepest candidate root that is an ancestor directory of the file; the
\* module paths of the catalogue are pairwise distinct and the fileCount
\* values sum to the number of input files.
C9_EveryFileInOneModule ==
    modules.done =>
        /\ \A i \in 1..Len(modFiles) :
              /\ modules.roots[i] = DeepestRoot(modFiles[i], modules.candidateRoots)
              /\ Cardinality({k \in 1..Len(modules.list) :
                                modules.list[k].path = modules.roots[i]}) = 1
        /\ \A k, l \in 1..Len(modules.list) :
              modules.list[k].path = modules.list[l].path => k = l
        /\ SumFileCounts(modules.list) = Len(modFiles)

\* C10: the catalogue detectModules returns contains a module whose path is ".".
C10_RootModuleAlways ==
    modules.done => \E k \in 1..Len(modules.list) : modules.list[k].path = Dot

\* The repository declares no workspace configuration and the caller names no
\* workspace patterns: workspaceConfig has no globs and no roots.
NoWorkspaceConfiguration ==
    /\ Len(modConfig.workspacePatterns) = 0
    /\ Len(WorkspaceConfigOf(modConfig).globs) = 0
    /\ Len(WorkspaceConfigOf(modConfig).roots) = 0

NoMarkerOutsideRoot == MarkerDirsOf(FileListOf(modFiles)) \subseteq {Dot}

TopLevelOf(filePath) == SplitSlash(filePath)[1]

\* C21: without a marker file outside the root and without a workspace
\* configuration, every top-level directory is a candidate root, and two
\* files under different top-level directories are in different modules.
C21_TopLevelFallback ==
    (modules.done /\ NoMarkerOutsideRoot /\ NoWorkspaceConfiguration) =>
        /\ TopLevelDirsOf(FileListOf(modFiles)) \subseteq modules.candidateRoots
        /\ \A i, j \in 1..Len(modFiles) :
              ( /\ Includes(modFiles[i], Chr.slash)
                /\ Includes(modFiles[j], Chr.slash)
                /\ TopLevelOf(modFiles[i]) # TopLevelOf(modFiles[j]) )
              => modules.roots[i] # modules.roots[j]

\* The patterns of the workspace configuration in the order they are listed,
\* each normalised, the empty ones dropped, repetitions kept.
ListedGlobs(patterns) ==
    SelectSeq([i \in 1..Len(patterns) |-> normalizeGlobPattern(patterns[i])],
              LAMBDA pattern : Len(pattern) > 0)

\* The workspace globs are the ones the configuration of the repository lists.
GlobsFromConfiguration ==
    /\ modConfig.useWorkspaceConfig
    /\ Len(modConfig.workspacePatterns) = 0
    /\ Len(modConfig.globs) > 0

\* The candidate roots that are there whatever the globs say.
RootsWithoutGlobs ==
    MarkerDirsOf(FileListOf(modFiles))
        \cup Range(WorkspaceConfigOf(modConfig).roots) \cup {Dot}

\* C22: a directory of the file list is a candidate root by the workspace
\* globs exactly when the last pattern that matches it, in the order the
\* configuration lists the patterns, is not negated.
C22_LastListedPatternWins ==
    (modules.done /\ GlobsFromConfiguration) =>
        \A d \in DirSetOf(FileListOf(modFiles)) \ RootsWithoutGlobs :
            d \in modules.candidateRoots
                <=> matchesPatterns(d, compileGlobMatchers(ListedGlobs(modConfig.globs)))

(***************************************************************************)
(* Claims about the update action.                                         *)
(***************************************************************************)
UpdateRan == run.kind = "update"

\* Some changed path is the root package.json or a top-level workspace file.
TouchesWorkspaceConfig ==
    \E i \in 1..Len(run.changedPaths) :
        \/ run.changedPaths[i] = PackageJson
        \/ run.changedPaths[i] \in WORKSPACE_CONFIG_FILES

\* The triggers of `full`, the ratio taken of a file count n.
FullTriggers(n) ==
    \/ ~run.hadModuleIndex
    \/ TouchesWorkspaceConfig
    \/ Len(run.changedPaths) >= 5000
    \/ 100 * Len(run.changedPaths) >= 25 * n

ModulePathsOf(mods) == {mods[i].path : i \in 1..Len(mods)}

\* The owner of a path among the modules of a catalogue: the deepest one that
\* is an ancestor directory, "." otherwise.
OwnerIn(filePath, mods) == DeepestRoot(filePath, ModulePathsOf(mods) \cup {Dot})

\* An incremental update after a run with exactly two modules, whose change
\* set is one path owned by one of the two.
OneChangeUnderOneOfTwo ==
    /\ UpdateRan
    /\ run.mode = "incremental"
    /\ Cardinality(ModulePathsOf(run.previousModules)) = 2
    /\ Len(run.changedPaths) = 1
    /\ OwnerIn(run.changedPaths[1], run.modules) \in ModulePathsOf(run.previousModules)

\* C4: after a run with modules {A, B}, when the only changed path is under
\* A, the affected set is A, plus the module that owned the path under the
\* previous roots if it is still in the catalogue, and B is not in it.
C4_OnlyOwnersAffected ==
    OneChangeUnderOneOfTwo =>
        LET p         == run.changedPaths[1]
            A         == OwnerIn(p, run.modules)
            prevOwner == OwnerIn(p, run.previousModules)
        IN  /\ run.changedModules =
                 {A} \cup ({prevOwner} \cap (ModulePathsOf(run.modules) \cup {Dot}))
            /\ \A B \in ModulePathsOf(run.previousModules) \ {A, prevOwner} :
                  B \notin run.changedModules

\* Such an update in which the other module is still in the catalogue.
C4_Witness ==
    /\ OneChangeUnderOneOfTwo
    /\ \E B \in ModulePathsOf(run.previousModules) \cap ModulePathsOf(run.modules) :
          B # OwnerIn(run.changedPaths[1], run.modules)

\* The same with a path whose owner under the previous roots was the other module.
C4_WitnessShifted ==
    /\ OneChangeUnderOneOfTwo
    /\ OwnerIn(run.changedPaths[1], run.previousModules)
          # OwnerIn(run.changedPaths[1], run.modules)

\* C5: in incremental mode every module of the catalogue that is not in the
\* affected set has, in the module index written, the keywords it has in the
\* previous module index.
C5_UnaffectedKeywordsKept ==
    (UpdateRan /\ run.mode = "incremental") =>
        \A i \in 1..Len(run.modules) :
            run.modules[i].path \notin run.changedModules =>
                /\ KeywordLookup(run.previousModules, run.modules[i].path).found
                /\ KeywordLookup(disk.moduleIndex, run.modules[i].path).found
                /\ KeywordLookup(disk.moduleIndex, run.modules[i].path).keywords
                      = KeywordLookup(run.previousModules, run.modules[i].path).keywords

\* An incremental update that recomputes one module and keeps another one,
\* which has keywords.
C5_Witness ==
    /\ UpdateRan
    /\ run.mode = "incremental"
    /\ run.changedModules # {}
    /\ \E i \in 1..Len(run.modules) :
          /\ run.modules[i].path \notin run.changedModules
          /\ KeywordLookup(disk.moduleIndex, run.modules[i].path).keywords # <<>>

\* C6: every module path of the affected set handed to the keyword extractor
\* is the path of a module of the catalogue detectModules returned.
C6_AffectedInCatalogue ==
    (UpdateRan /\ run.handed) => run.changedModules \subseteq ModulePathsOf(run.modules)

\* C11: an update that finds no readable file_index.json or no readable
\* module_index.json completes and runs in `full` mode, whatever the
\* repository holds, an empty file list included.
C11_FullWithoutPreviousState ==
    (UpdateRan /\ (~run.hadFileIndex \/ ~run.hadModuleIndex)) =>
        run.mode = "full"

\* The modules of the catalogue owning a path edited since the last completed
\* run.
EditedModules ==
    {OwnerIn(p, run.modules) : p \in run.editedPaths} \cap ModulePathsOf(run.modules)

\* C12: an update after a run that was cut short between its writes recomputes
\* every module owning a file that changed since the last completed run: the
\* update is full, or the module is in the affected set.
C12_InterruptedRunIsNoBaseline ==
    (UpdateRan /\ run.count > 1) =>
        \/ run.mode = "full"
        \/ EditedModules \subseteq run.changedModules

\* The candidate roots detectModules works with on a repository, the owner of
\* a path among them, and the files a root owns with their contents.
CandidatesAt(tr) == detectModules(collectFiles(tr), CliModConfig).candidateRoots

OwnerAt(filePath, tr) == DeepestRoot(filePath, CandidatesAt(tr))

OwnedAt(modulePath, tr) ==
    {<<q, tr[q]>> : q \in {f \in DOMAIN tr : OwnerAt(f, tr) = modulePath}}

IncrementalRan == UpdateRan /\ run.mode = "incremental"

\* C23: in incremental mode, for every changed path, its owner under the
\* roots of this run and its owner under the roots of the previous run are in
\* the affected set when they are modules of the current catalogue.
C23_OldAndNewOwnerAffected ==
    IncrementalRan =>
        \A i \in 1..Len(run.changedPaths) :
            ( {OwnerAt(run.changedPaths[i], run.treeAtRun),
               OwnerAt(run.changedPaths[i], run.previousTree)}
              \cap ModulePathsOf(run.modules) ) \subseteq run.changedModules

\* An incremental update with a changed path whose owner was another module
\* in the previous run, both of them in the catalogue.
C23_Witness ==
    /\ IncrementalRan
    /\ \E i \in 1..Len(run.changedPaths) :
          /\ OwnerAt(run.changedPaths[i], run.treeAtRun)
                # OwnerAt(run.changedPaths[i], run.previousTree)
          /\ OwnerAt(run.changedPaths[i], run.treeAtRun) \in ModulePathsOf(run.modules)
          /\ OwnerAt(run.changedPaths[i], run.previousTree) \in ModulePathsOf(run.modules)

\* The modules of the catalogue whose owned files, or the content of one of
\* them, differ from the previous run.
StaleModules ==
    {m \in ModulePathsOf(run.modules) :
        OwnedAt(m, run.treeAtRun) # OwnedAt(m, run.previousTree)}

EntryPaths(list) == {list[i].path : i \in 1..Len(list)}

\* C13: two runs on the same unchanged tree return the same FileIndex files
\* list and the same module catalogue in the same order, whatever order the
\* files were enumerated in and however the workers interleaved, and the
\* change set between the two indexes is empty.
C13_SameTreeSameIndex ==
    (firstRun.done /\ built.done) =>
        /\ built.files = firstRun.files
        /\ built.modules = firstRun.modules
        /\ diffFileIndex([hashAlgorithm |-> "sha256", files |-> firstRun.files],
                         [hashAlgorithm |-> "sha256", files |-> built.files])
             = [hashAlgorithm |-> "sha256",
                added |-> <<>>, modified |-> <<>>, deleted |-> <<>>]

\* Two finished runs over three files in two modules and the root, the files
\* enumerated in different orders and the second run's workers having pushed
\* their entries out of order.
C13_Witness ==
    /\ firstRun.done
    /\ built.done
    /\ firstRun.listed # built.listed
    /\ Len(built.files) = 3
    /\ Len(built.modules) = 3
    /\ indexEntries # built.files

\* C14: when buildFileIndex has returned, every worker has finished, the
\* index holds every entry the workers pushed, and its files are in ascending
\* order of path.
C14_ReturnsCompleteAndSorted ==
    built.done =>
        /\ \A w \in DOMAIN workers : workers[w].pc = "done"
        /\ Len(built.files) = Len(indexEntries)
        /\ EntryPaths(built.files) = EntryPaths(indexEntries)
        /\ Ascending(PathsOf(built.files))

\* A run of two workers over three files that pushed the entries out of order.
C14_Witness ==
    /\ built.done
    /\ Len(workers) = 2
    /\ Len(built.files) = 3
    /\ ~Ascending(PathsOf(indexEntries))

\* C15: when buildFileIndex has returned, every listed file (the skipped "."
\* apart) has an entry in the index, its hash null if it disappeared or was
\* unreadable when it was read.
C15_FailedFileStillRecorded ==
    built.done =>
        \A i \in 1..Len(indexOpts.files) :
            ~Skipped(indexOpts.files[i]) =>
                indexOpts.files[i] \in EntryPaths(built.files)

\* The positions of files the cursor has passed.
PassedPositions == 0..(Min({nextIndex, Len(indexOpts.files)}) - 1)

\* The workers that are between fs.stat and entries.push for filePath.
WorkersOn(filePath) ==
    {w \in DOMAIN workers : workers[w].pc \in {"stat", "hash"}
                              /\ workers[w].filePath = filePath}

EntriesOf(filePath) == {i \in DOMAIN indexEntries : indexEntries[i].path = filePath}

\* Every position the cursor has passed was read by one worker, once; a file
\* is with at most one worker or has at most one entry, never both; and when
\* the workers have stopped the cursor is past the end and every file that is
\* not skipped and is still there has its entry.
ClaimedOnce ==
    /\ \A i, j \in DOMAIN claimed : claimed[i].position = claimed[j].position => i = j
    /\ {claimed[i].position : i \in DOMAIN claimed} = PassedPositions
    /\ \A i \in DOMAIN claimed : claimed[i].worker \in DOMAIN workers
    /\ \A p \in Range(indexOpts.files) :
          Cardinality(WorkersOn(p)) + Cardinality(EntriesOf(p)) <= 1
    /\ (workers # <<>> /\ AllSettled(workers)) =>
          /\ nextIndex >= Len(indexOpts.files)
          /\ \A p \in Range(indexOpts.files) :
                (~Skipped(p) /\ repo[p] # "gone") => Cardinality(EntriesOf(p)) = 1

\* C29: in buildFileIndex, for every number of workers and every
\* interleaving of their steps, each position of the file list is claimed by
\* exactly one worker, no file is stat-ed and hashed twice, no position is
\* skipped, and every worker stops in the end.
C29_EachPositionClaimedOnce == []ClaimedOnce /\ <>[]AllSettled(workers)

\* Two workers have shared a list of three files and have stopped.
C29_Witness ==
    /\ Len(workers) = MaxConcurrency
    /\ AllSettled(workers)
    /\ Len(claimed) = MaxListed
    /\ {claimed[i].worker : i \in DOMAIN claimed} = DOMAIN workers
    /\ Len(indexEntries) >= 2

(***************************************************************************)
(* Claims about resolveModuleRoot.                                         *)
(***************************************************************************)
\* The upward walk without a cache: the first of dir and its ancestors that
\* is a candidate root, "." at the latest; NoPath when `turns` turns do not
\* get there.
RECURSIVE UpwardWalk(_, _, _)
UpwardWalk(dir, candidateRoots, turns) ==
    IF dir \in candidateRoots THEN dir
    ELSE IF dir = Dot THEN Dot
    ELSE IF turns = 0 THEN NoPath
    ELSE UpwardWalk(PosixDirname(dir), candidateRoots, turns - 1)

\* A path of n characters has fewer than n ancestors.
UncachedRoot(filePath, candidateRoots) ==
    UpwardWalk(PosixDirname(filePath), candidateRoots, Len(filePath))

HasReturned == ~resolution.active /\ resolution.filePath # NoPath

\* A call that has returned gave the root of the uncached walk.
ReturnsUncachedRoot ==
    HasReturned => resolution.root = UncachedRoot(resolution.filePath, rootSet)

\* Every entry of the cache is the root of the uncached walk from its key.
CacheIsUncached ==
    \A d \in DOMAIN rootCache : rootCache[d] = UpwardWalk(d, rootSet, Len(d))

\* A step keeps every entry of the cache as it is.
CacheOnlyGrows ==
    \A d \in DOMAIN rootCache : d \in DOMAIN rootCache' /\ rootCache'[d] = rootCache[d]

\* The calls for the relative paths return.
RelativeCallReturns ==
    (resolution.active /\ resolution.filePath[1] # Chr.slash) ~> HasReturned

\* C30: for a fixed set of candidate roots and after any earlier calls on
\* the same cache, resolveModuleRoot returns the root of the uncached upward
\* walk; every call returns, whatever the path; and a step never changes or
\* removes an entry of the cache.
C30_CachedEqualsUncachedAndReturns ==
    /\ [](ReturnsUncachedRoot /\ CacheIsUncached)
    /\ [][CacheOnlyGrows]_vars
    /\ (resolution.active ~> HasReturned)

(***************************************************************************)
(* Claims about normalizePosixPath.                                        *)
(***************************************************************************)
\* A RepoPath in canonical form: no backslash, no leading "./", no trailing
\* slash (the path "/" apart, which the loop cannot shorten), and not empty.
IsCanonical(p) ==
    /\ \A i \in 1..Len(p) : p[i] # Chr.backslash
    /\ ~StartsWith(p, <<46, 47>>)
    /\ (Len(p) > 1 => p[Len(p)] # Chr.slash)
    /\ p # EmptyStr

\* C20: normalizePosixPath returns a canonical RepoPath for every string (the
\* empty string becomes "."), in the module detector's copy too, and
\* normalising its result again changes nothing.
C20_CanonicalAndIdempotent ==
    /\ canonical.done =>
          /\ IsCanonical(canonical.fileIndex)
          /\ IsCanonical(canonical.detector)
          /\ (rawPath = EmptyStr => canonical.fileIndex = Dot)
    /\ canonical.again => canonical.second = canonical.fileIndex

====
